---- MODULE Spec2Model ----
(***************************************************************************)
(* Verification model of justjake/go-scripting, package annotation2:       *)
(* the pipeline engine (pipeline.Run, unit), the source loader's result    *)
(* (loader.Load) and the annotation catalog (adb, Catalog).                *)
(*                                                                         *)
(* The repository holds two revisions of the pipeline engine:              *)
(*   "pipeline_go" : src/annotation2/pipeline.go                           *)
(*   "part_003"    : src/unnamed/part_003                                  *)
(* They differ in NewPipeline and newUnit; Run and AddStep are the same.   *)
(* The revision a behaviour runs is fixed by Init.                         *)
(***************************************************************************)
EXTENDS Integers, Sequences, FiniteSets, TLC

VARIABLES
    rev,      \* which revision of the pipeline engine is built
    steps,    \* pipeline.steps
    added,    \* names passed to AddStep so far, in call order
    pc,       \* position of Run: NotStarted, Running, InStep, Completed, Aborted, Panicked
    i,        \* Run's loop index into steps (1-based here, Go's i is i-1)
    pkg,      \* Run's local pkg
    err,      \* Run's local err
    out,      \* Run's local out
    unit,     \* the unit handed to the step being run
    ret,      \* what the last Run returned: a record with the single field err
    loaded,   \* what loader.Load returned to the last Run
    loads,    \* number of loader.Load calls so far
    runs,     \* number of Run calls so far
    calls,    \* step invocations of the current Run, in order
    stderr,   \* lines unit.Errorf wrote to os.Stderr since the current Run began
    cpc,      \* position of the Catalog step: idle, input (not yet run), built
    hits,     \* the []Annotation the Catalog step receives through Input()
    db,       \* the adb the Catalog step returns
    cret,     \* the error the Catalog step returns
    result,   \* the last query made on db and what it returned
    heap,     \* memory: the backing arrays of the slices, by address
    hdb,      \* the adb as it lies in memory: a slice header per index list
    held,     \* the slice a caller of the adb got from its last query
    ds,       \* the DispatchStep: Funcs, Out, Unit
    regs,     \* the last call of On: name, cb, and whether name was registered before
    dpc,      \* position of DispatchStep.Run: idle, config, running, returned, panicked
    dk,       \* index of Run's loop into db.All()
    events,   \* what Run's loop did so far, one record per annotation visited
    dret,     \* what DispatchStep.Run returned: out and err
    cf,       \* a direct call of CallFunc: fn, args and the outcome
    psrc,     \* the declarations the parser walks, each with its doc comments
    ppc,      \* position of Parser.Parse: idle, parsing, done
    pcur,     \* the candidate the parser looks at next: decl, comment, match
    pout,     \* the hits collected so far
    perrs,    \* the calls of Parser.Errorf so far
    lk,       \* a direct call of LookupRef: the Ref and what came back
    spf,      \* a call of ScriptPrintf: format, operands and the result
    msh,      \* a MockShell, and the runs made on it
    shl       \* a Shell, and the calls of Must and the executions made on it

pvars == <<rev, steps, added, pc, i, pkg, err, out, ret, loaded, loads, runs,
           calls>>
cvars == <<cpc, hits, db, cret, result>>
mvars == <<heap, hdb, held>>
dvars == <<ds, regs, dpc, dk, events, dret, cf>>
avars == <<psrc, ppc, pcur, pout, perrs>>
xvars == <<lk, spf, msh, shl>>
ovars == <<mvars, dvars, avars, xvars>>
vars == <<rev, steps, added, pc, i, pkg, err, out, unit, ret, loaded, loads,
          runs, calls, stderr, cpc, hits, db, cret, result, heap, hdb, held,
          ds, regs, dpc, dk, events, dret, cf, psrc, ppc, pcur, pout, perrs,
          lk, spf, msh, shl>>

----------------------------------------------------------------------------
(* Bounds *)
MaxSteps == 2
MaxErrorf == 2
MaxRuns == 2

(* Small input alphabets *)
Revisions == {"pipeline_go", "part_003"}
StepNames == {"Parse", "Catalog"}
Diags == {"d1"}
StepPositions == {10}

\* nil of each Go type, and values that are told apart from every nil
NilValue == [nil |-> "interface{}"]
NilErr == [nil |-> "error"]
NilPkg == [nil |-> "*Package"]
NilUnit == [nil |-> "UnitAPI"]
NilFunc == 0
NoRet == [none |-> TRUE]
NoInput == [none |-> "UnitAPI has no Input method"]
NoDb == [none |-> "adb"]
NoResult == [op |-> "none"]
NoSlice == [none |-> "slice"]
NoCall == [none |-> "CallFunc"]
NoReg == [none |-> "On"]
NoCursor == [none |-> "cursor"]

Err(m) == [msg |-> m]
Last(q) == q[Len(q)]
Values == {NilValue, [v |-> 1], [v |-> 2]}
StepErrs == {NilErr, Err("step failed")}
\* what the loader found: how many files parsed, and the errors it collected
FileCounts == {0, 1}
LoadErrLists ==
    { <<>>, <<Err("parse error")>>, <<Err("type error")>>,
      <<Err("parse error"), Err("type error")>> }

----------------------------------------------------------------------------
(* loader.Load: the decision it makes once the files are parsed and        *)
(* type-checked.  nfiles is len(out.Syntax), errs the collected errors.    *)

multierror(errs) == [multi |-> errs]

joinErrors(errs) ==
    IF Len(errs) = 0 THEN NilErr
    ELSE IF Len(errs) = 1 THEN errs[1]
    ELSE multierror(errs)

Load(nfiles, errs) ==
    IF nfiles = 0
    THEN IF Len(errs) > 0
         THEN [pkg |-> NilPkg, err |-> errs[1]]
         ELSE [pkg |-> NilPkg, err |-> Err("no files parsed")]
    ELSE [pkg |-> [Syntax |-> nfiles], err |-> joinErrors(errs)]

----------------------------------------------------------------------------
(* unit *)

\* a newUnit that forgets the previous step's output
newUnit_NoInput(name, p, input) ==
    [name |-> name, pkg |-> p, input |-> NilValue, errors |-> <<>>]

newUnit_part_003(name, p, input) ==
    [name |-> name, pkg |-> p, input |-> input, errors |-> <<>>]

\* pipeline.go's stub: UnitAPI is interface{} and newUnit returns nil
newUnit_pipeline_go(p, lemmas, input) == NilUnit

newUnit(name, p, input) ==
    IF rev = "pipeline_go" THEN newUnit_pipeline_go(p, "lemmas", input)
    ELSE newUnit_part_003(name, p, input)

Input(u) == u.input

Error(position, message) == [Position |-> position, message |-> message]

\* Package().Fset.Position(p)
Position(p) == [Offset |-> p]

\* unit.Errorf: the unit after the call
Errorf(u, p, msg) ==
    LET e == Error(Position(p), msg) IN
    IF Len(u.errors) = 0
    THEN [u EXCEPT !.errors = <<e>>]
    ELSE [u EXCEPT !.errors = Append(u.errors, e)]

----------------------------------------------------------------------------
(* pipeline *)

ZeroStep == [name |-> "", run |-> NilFunc]

\* src/annotation2/pipeline.go: make([]step, 1)
NewPipeline_pipeline_go == <<ZeroStep>>

\* src/unnamed/part_003: make([]step, 0, 1)
NewPipeline_part_003 == <<>>

NewPipeline(r) ==
    IF r = "pipeline_go" THEN NewPipeline_pipeline_go ELSE NewPipeline_part_003

\* a wrapping that reports Go's 0-based i instead of i+1
StepError_ZeroBased(idx, name, e) ==
    [step |-> idx - 1, name |-> name, cause |-> e]

\* fmt.Errorf("step %d %q: %v", i+1, s.name, err); idx is the 1-based
\* position in steps, that is Go's i+1
StepError(idx, name, e) == [step |-> idx, name |-> name, cause |-> e]

Idle == pc \in {"NotStarted", "Completed", "Aborted"}

\* no adb has been laid out in memory
IdleMemory == heap = <<>> /\ hdb = NoDb /\ held = NoSlice

\* CallFunc has not been called directly
IdleCallFunc == cf = NoCall

\* no DispatchStep has been built
IdleDispatch ==
    /\ ds = [Funcs |-> <<>>, Out |-> NilValue, Unit |-> NilUnit]
    /\ regs = NoReg
    /\ dpc = "idle"
    /\ dk = 0
    /\ events = <<>>
    /\ dret = NoRet
    /\ IdleCallFunc

\* no Parser is at work
IdleParser ==
    /\ psrc = <<>>
    /\ ppc = "idle"
    /\ pcur = NoCursor
    /\ pout = <<>>
    /\ perrs = <<>>

\* no direct call of LookupRef
NoLookup == [none |-> "LookupRef"]
IdleLookup == lk = NoLookup

\* no use of package shell
NoPrintf == [none |-> "ScriptPrintf"]
NoMockShell == [none |-> "MockShell"]
NoShell == [none |-> "Shell"]
IdleShell == spf = NoPrintf /\ msh = NoMockShell /\ shl = NoShell
IdleExtra == IdleLookup /\ IdleShell

Init ==
    /\ rev \in Revisions
    /\ steps = NewPipeline(rev)
    /\ added = <<>>
    /\ pc = "NotStarted"
    /\ i = 0
    /\ pkg = NilPkg
    /\ err = NilErr
    /\ out = NilValue
    /\ unit = NilUnit
    /\ ret = NoRet
    /\ loaded = NoRet
    /\ loads = 0
    /\ runs = 0
    /\ calls = <<>>
    /\ stderr = <<>>
    /\ cpc = "idle"
    /\ hits = <<>>
    /\ db = NoDb
    /\ cret = NilErr
    /\ result = NoResult
    /\ IdleMemory
    /\ IdleDispatch
    /\ IdleParser
    /\ IdleExtra

\* AddStep(name, run): run is identified by the ordinal of its registration
AddStep ==
    /\ UNCHANGED <<cvars, ovars>>
    /\ Idle
    /\ Len(added) < MaxSteps
    /\ \E name \in StepNames :
         /\ steps' = Append(steps, [name |-> name, run |-> Len(added) + 1])
         /\ added' = Append(added, name)
    /\ UNCHANGED <<rev, pc, i, pkg, err, out, unit, ret, loaded, loads, runs,
                   calls, stderr>>

\* a Run that does not check pkg == nil after the load
Run_Load_NoNilCheck ==
    /\ UNCHANGED <<cvars, ovars>>
    /\ Idle
    /\ runs < MaxRuns
    /\ \E nfiles \in FileCounts, errs \in LoadErrLists :
         LET r == Load(nfiles, errs) IN
         /\ loaded' = r
         /\ pkg' = r.pkg
         /\ err' = r.err
    /\ ret' = NoRet
    /\ pc' = "Running"
    /\ loads' = loads + 1
    /\ runs' = runs + 1
    /\ i' = 1
    /\ out' = NilValue
    /\ unit' = NilUnit
    /\ calls' = <<>>
    /\ stderr' = <<>>
    /\ UNCHANGED <<rev, steps, added>>

\* Run, from entry to the first iteration of the loop
Run_Load ==
    /\ UNCHANGED <<cvars, ovars>>
    /\ Idle
    /\ runs < MaxRuns
    /\ \E nfiles \in FileCounts, errs \in LoadErrLists :
         LET r == Load(nfiles, errs) IN
         /\ loaded' = r
         /\ pkg' = r.pkg
         /\ err' = r.err
         /\ IF r.pkg = NilPkg
            THEN /\ ret' = [err |-> r.err]
                 /\ pc' = "Aborted"
            ELSE /\ ret' = NoRet
                 /\ pc' = "Running"
    /\ loads' = loads + 1
    /\ runs' = runs + 1
    /\ i' = 1
    /\ out' = NilValue
    /\ unit' = NilUnit
    /\ calls' = <<>>
    /\ stderr' = <<>>
    /\ UNCHANGED <<rev, steps, added>>

\* Run, loop body up to the call s.run(unit)
Run_Call ==
    /\ UNCHANGED <<cvars, ovars>>
    /\ pc = "Running"
    /\ i <= Len(steps)
    /\ LET s == steps[i] IN
       /\ unit' = newUnit(s.name, pkg, out)
       /\ IF s.run = NilFunc
          THEN /\ pc' = "Panicked"
               /\ calls' = calls
          ELSE /\ pc' = "InStep"
               /\ calls' = Append(calls,
                     [run |-> s.run, name |-> s.name,
                      input |-> IF unit' = NilUnit THEN NoInput
                                ELSE Input(unit'),
                      done |-> FALSE, out |-> NilValue, err |-> NilErr])
    /\ UNCHANGED <<rev, steps, added, i, pkg, err, out, ret, loaded, loads,
                   runs, stderr>>

\* the running step calls unit.Errorf
Step_Errorf ==
    /\ UNCHANGED <<cvars, ovars>>
    /\ pc = "InStep"
    /\ unit # NilUnit
    /\ Len(unit.errors) < MaxErrorf
    /\ \E msg \in Diags, p \in StepPositions :
         /\ unit' = Errorf(unit, p, msg)
         /\ stderr' = Append(stderr, [name |-> unit.name, err |-> Error(Position(p), msg)])
    /\ UNCHANGED <<rev, steps, added, pc, i, pkg, err, out, ret, loaded,
                   loads, runs, calls>>

\* a Run that goes on to the next step whatever the step returned
Step_Return_NoAbort ==
    /\ UNCHANGED <<cvars, ovars>>
    /\ pc = "InStep"
    /\ \E o \in Values, e \in StepErrs :
         /\ out' = o
         /\ err' = e
         /\ calls' = [calls EXCEPT ![Len(calls)] =
                         [@ EXCEPT !.done = TRUE, !.out = o, !.err = e]]
    /\ pc' = "Running"
    /\ i' = i + 1
    /\ UNCHANGED <<rev, steps, added, pkg, unit, ret, loaded, loads, runs,
                   stderr>>

\* the running step returns (o, e); Run's "out, err = s.run(unit)" and the
\* check of err that follows
Step_Return ==
    /\ UNCHANGED <<cvars, ovars>>
    /\ pc = "InStep"
    /\ \E o \in Values, e \in StepErrs :
         /\ out' = o
         /\ err' = e
         /\ calls' = [calls EXCEPT ![Len(calls)] =
                         [@ EXCEPT !.done = TRUE, !.out = o, !.err = e]]
         /\ IF e # NilErr
            THEN /\ ret' = [err |-> StepError(i, steps[i].name, e)]
                 /\ pc' = "Aborted"
                 /\ i' = i
            ELSE /\ ret' = ret
                 /\ pc' = "Running"
                 /\ i' = i + 1
    /\ UNCHANGED <<rev, steps, added, pkg, unit, loaded, loads, runs, stderr>>

\* Run, after the loop: return nil
Run_Return ==
    /\ UNCHANGED <<cvars, ovars>>
    /\ pc = "Running"
    /\ i > Len(steps)
    /\ ret' = [err |-> NilErr]
    /\ pc' = "Completed"
    /\ UNCHANGED <<rev, steps, added, i, pkg, err, out, unit, loaded, loads,
                   runs, calls, stderr>>

Next ==
    \/ AddStep
    \/ Run_Load
    \/ Run_Call
    \/ Step_Errorf
    \/ Step_Return
    \/ Run_Return

Spec == Init /\ [][Next]_vars

----------------------------------------------------------------------------
(* The source model the Catalog step reads: unit.Package().Info and .Pkg   *)

MaxHits == 3

NilObj == [nil |-> "types.Object"]
Obj(n) == [obj |-> n]

\* annotation names as byte strings: "A", "AB", "B"
NameUniverse == {<<65>>, <<65, 66>>, <<66>>}

\* types.Info of the package: the object of each identifier that has one
Info == ("Greet" :> Obj("func Greet")) @@ ("Thing" :> Obj("type Thing"))

\* the members each namespace declares: the scope of the package, the scope
\* of its file with the imports, the scope of the imported package fmt, the
\* universe, and the method set of the type Thing
Members ==
    ("scope" :> (("Thing" :> "type Thing") @@ ("Greet" :> "func Greet")))
    @@ ("type Thing" :> ("Greeting" :> "method Thing.Greeting"))
    @@ ("file" :> ("fmt" :> "pkgname fmt"))
    @@ ("scope fmt" :> ("Sprintf" :> "func fmt.Sprintf"))
    @@ ("universe" :> ("int" :> "type int"))

\* Scope.Parent of each scope, and PkgName.Imported().Scope() of each import
ScopeParent ==
    ("file" :> "scope") @@ ("scope" :> "universe") @@ ("scope fmt" :> "universe")
    @@ ("universe" :> "none")
Imported == ("pkgname fmt" :> "scope fmt")

CatalogPkg == [Syntax |-> 1, Info |-> Info, Pkg |-> "scope"]

\* the declarations annotations are anchored at
FuncDeclNode == [kind |-> "FuncDecl", names |-> <<"Greet">>, values |-> 0, pos |-> 1]
GenDeclNode == [kind |-> "GenDecl", names |-> <<>>, values |-> 0, pos |-> 3]
UncheckedNode == [kind |-> "FuncDecl", names |-> <<"Broken">>, values |-> 0, pos |-> 5]

\* annotation arguments: evaluated literals and Refs
Lit(v) == [lit |-> v]
Ref(path, from, p) == [selector |-> path, from |-> from, pos |-> p]
IsRef(arg) == "selector" \in DOMAIN arg

\* what an annotation is attached to and what arguments it carries
AnchorShapes ==
    { [from |-> FuncDeclNode,
       args |-> <<Lit(5), Ref(<<"Thing", "Greeting">>, FuncDeclNode, 21),
                  Ref(<<"Thing", "Nope">>, FuncDeclNode, 22)>>],
      [from |-> GenDeclNode,
       args |-> <<Ref(<<"Missing">>, GenDeclNode, 23)>>],
      [from |-> UncheckedNode, args |-> <<>>] }

\* every []Annotation of n annotations; id tells the annotation values apart
AnnotationLists(n) ==
    { [k \in 1..n |-> [id |-> k, name |-> nm[k], from |-> sh[k].from,
                       args |-> sh[k].args]] :
        nm \in [1..n -> NameUniverse], sh \in [1..n -> AnchorShapes] }

From(r) == r.from

ObjectOf(info, id) == IF id \in DOMAIN info THEN info[id] ELSE NilObj

LookupObject(info, node) ==
    CASE node.kind = "Field" ->
            IF Len(node.names) = 0
            THEN [obj |-> NilObj, err |-> Err("is anonymous field")]
            ELSE [obj |-> ObjectOf(info, node.names[1]), err |-> NilErr]
      [] node.kind = "FuncDecl" ->
            [obj |-> ObjectOf(info, node.names[1]), err |-> NilErr]
      [] node.kind = "GenDecl" ->
            [obj |-> NilObj, err |-> Err("contains []Spec, try one of those")]
      [] node.kind = "ImportSpec" ->
            [obj |-> NilObj, err |-> Err("unimplemented")]
      [] node.kind = "TypeSpec" ->
            [obj |-> ObjectOf(info, node.names[1]), err |-> NilErr]
      [] node.kind = "ValueSpec" ->
            IF Len(node.names) = 1 /\ node.values = 1
            THEN [obj |-> ObjectOf(info, node.names[1]), err |-> NilErr]
            ELSE [obj |-> NilObj, err |-> Err("is ambigous")]
      [] OTHER -> [obj |-> NilObj, err |-> Err("unsupported node type")]

\* Scope.LookupParent(name, 0): the object of name in the scope or in the
\* nearest scope around it that declares the name
RECURSIVE LookupParent(_, _)
LookupParent(scope, name) ==
    IF scope \notin DOMAIN ScopeParent THEN NilObj
    ELSE IF name \in DOMAIN Members[scope] THEN Obj(Members[scope][name])
    ELSE LookupParent(ScopeParent[scope], name)

\* types.LookupFieldOrMethod on the type of an object
LookupFieldOrMethod(obj, name) ==
    IF obj \in DOMAIN Members /\ name \in DOMAIN Members[obj]
    THEN Obj(Members[obj][name])
    ELSE NilObj

\* parent is a scope, or the name of the object looked into: a PkgName goes
\* on to the scope of the package it imports, any other object to its type
LookupName(parent, name) ==
    LET found == CASE parent \in DOMAIN ScopeParent -> LookupParent(parent, name)
                   [] parent \in DOMAIN Imported ->
                        LookupParent(Imported[parent], name)
                   [] OTHER -> LookupFieldOrMethod(parent, name)
    IN IF found = NilObj THEN [obj |-> NilObj, err |-> Err("not found")]
       ELSE [obj |-> found, err |-> NilErr]

\* a loop over the path that goes on after a segment was not found
RECURSIVE LookupRefFrom_GoOn(_, _, _, _, _)
LookupRefFrom_GoOn(scope, path, k, obj, objs) ==
    IF k > Len(path) THEN [objs |-> objs, err |-> NilErr, looked |-> <<>>]
    ELSE LET from == IF k = 1 THEN scope ELSE obj.obj
             r == LookupName(from, path[k])
             rest == LookupRefFrom_GoOn(scope, path, k + 1,
                         IF r.err # NilErr THEN Obj("nil") ELSE r.obj,
                         IF r.err # NilErr THEN objs ELSE Append(objs, r.obj))
         IN [objs |-> rest.objs,
             err |-> IF r.err # NilErr THEN r.err ELSE rest.err,
             looked |-> <<[segment |-> k, parent |-> from, name |-> path[k]]>>
                          \o rest.looked]

\* the loop over the path from segment k on; looked holds the calls of
\* LookupName the loop made, in order
RECURSIVE LookupRefFrom(_, _, _, _, _)
LookupRefFrom(scope, path, k, obj, objs) ==
    IF k > Len(path) THEN [objs |-> objs, err |-> NilErr, looked |-> <<>>]
    ELSE LET from == IF k = 1 THEN scope ELSE obj.obj
             r == LookupName(from, path[k])
             call == [segment |-> k, parent |-> from, name |-> path[k]]
         IN IF r.err # NilErr
            THEN [objs |-> objs, err |-> r.err, looked |-> <<call>>]
            ELSE LET rest == LookupRefFrom(scope, path, k + 1, r.obj,
                                           Append(objs, r.obj))
                 IN [rest EXCEPT !.looked = <<call>> \o @]

\* pkg.Scope().Innermost(pos): a declaration of the file lies in its file scope
Innermost(p, pos) == IF p = "scope" THEN "file" ELSE p

\* r.selector holds the segments strings.Split(r.Selector(), ".") yields
LookupRef(p, r) ==
    LookupRefFrom(Innermost(p, From(r).pos), r.selector, 1, NilObj, <<>>)

----------------------------------------------------------------------------
(* adb, the annotation catalog *)

\* Go maps: a missing key reads as the nil slice
MapGet(m, k) == IF k \in DOMAIN m THEN m[k] ELSE <<>>
MapPut(m, k, v) == [x \in DOMAIN m \cup {k} |-> IF x = k THEN v ELSE m[x]]

newAdb == [all |-> <<>>, name |-> <<>>, pkg |-> <<>>, obj |-> <<>>, node |-> <<>>]

All(d) == <<>> \o d.all

Named(d, name) == <<>> \o MapGet(d.name, name)

ForObj(d, obj) == <<>> \o MapGet(d.obj, obj)

ForPkg(d, p) == <<>> \o MapGet(d.pkg, p)

ForNode(d, node) == <<>> \o MapGet(d.node, node)

\* lexicographic order on byte strings, as Go's < on strings
RECURSIVE StringLess(_, _)
StringLess(a, b) ==
    IF Len(b) = 0 THEN FALSE
    ELSE IF Len(a) = 0 THEN TRUE
    ELSE IF Head(a) # Head(b) THEN Head(a) < Head(b)
    ELSE StringLess(Tail(a), Tail(b))

RECURSIVE SortInsert(_, _)
SortInsert(x, sorted) ==
    IF Len(sorted) = 0 THEN <<x>>
    ELSE IF StringLess(x, Head(sorted)) THEN <<x>> \o sorted
    ELSE <<Head(sorted)>> \o SortInsert(x, Tail(sorted))

\* sort.Strings
RECURSIVE SortStrings(_)
SortStrings(names) ==
    IF Len(names) = 0 THEN <<>>
    ELSE SortInsert(Head(names), SortStrings(Tail(names)))

\* the orders in which "for k := range m" can visit the keys of m
RangeOrders(m) ==
    LET n == Cardinality(DOMAIN m) IN
    { o \in [1..n -> DOMAIN m] : \A a, b \in 1..n : a # b => o[a] # o[b] }

\* a Names that returns the keys as the range visited them
Names_NoSort(d, order) == order

\* adb.Names, order being the order the range over db.name takes
Names(d, order) ==
    LET names == order IN SortStrings(names)

\* adb.Objs, adb.Pkgs, adb.Nodes: the keys in the order the range visits them
Objs(d, order) == LET objs == order IN objs

Pkgs(d, order) == LET pkgs == order IN pkgs

Nodes(d, order) == LET nodes == order IN nodes

\* an add that puts the annotation in front of its name's list
add_Prepend(d, ann) ==
    [d EXCEPT !.all = Append(d.all, ann),
              !.name = MapPut(d.name, ann.name, <<ann>> \o MapGet(d.name, ann.name)),
              !.node = MapPut(d.node, From(ann), Append(MapGet(d.node, From(ann)), ann))]

add(d, ann) ==
    [d EXCEPT !.all = Append(d.all, ann),
              !.name = MapPut(d.name, ann.name, Append(MapGet(d.name, ann.name), ann)),
              !.node = MapPut(d.node, From(ann), Append(MapGet(d.node, From(ann)), ann))]

addObj(d, obj, ann) ==
    add([d EXCEPT !.obj = MapPut(d.obj, obj, Append(MapGet(d.obj, obj), ann))], ann)

addpkg(d, p, ann) ==
    add([d EXCEPT !.pkg = MapPut(d.pkg, p, Append(MapGet(d.pkg, p), ann))], ann)

----------------------------------------------------------------------------
(* The Catalog step *)

AnchorMsg(hit, e) == [text |-> "cannot find anchor object", hit |-> hit.id, err |-> e]
RefMsg(ref, e) == [text |-> "warning: cannot find referenced object", ref |-> ref.selector, err |-> e]

\* the loop over hit.Args() of one resolved hit: the unit after it
RECURSIVE CatalogArgs(_, _, _)
CatalogArgs(u, args, k) ==
    IF k > Len(args) THEN u
    ELSE LET arg == args[k] IN
         IF IsRef(arg) /\ LookupRef(u.pkg.Pkg, arg).err # NilErr
         THEN CatalogArgs(Errorf(u, arg.pos, RefMsg(arg, LookupRef(u.pkg.Pkg, arg).err)),
                          args, k + 1)
         ELSE CatalogArgs(u, args, k + 1)

\* a loop body that skips a hit whose anchor does not resolve
CatalogHit_DropUnresolved(st, hit) ==
    LET r == LookupObject(st.unit.pkg.Info, From(hit)) IN
    IF r.obj = NilObj
    THEN [db |-> st.db,
          unit |-> Errorf(st.unit, From(hit).pos, AnchorMsg(hit, r.err))]
    ELSE [db |-> addObj(st.db, r.obj, hit),
          unit |-> CatalogArgs(st.unit, hit.args, 1)]

\* a loop body that indexes every hit by object, resolved or not
CatalogHit_NoNilCheck(st, hit) ==
    LET r == LookupObject(st.unit.pkg.Info, From(hit)) IN
    [db |-> addObj(st.db, r.obj, hit),
     unit |-> CatalogArgs(st.unit, hit.args, 1)]

\* one iteration of Catalog's loop over hits
CatalogHit(st, hit) ==
    LET r == LookupObject(st.unit.pkg.Info, From(hit)) IN
    IF r.obj = NilObj
    THEN [db |-> add(st.db, hit),
          unit |-> Errorf(st.unit, From(hit).pos, AnchorMsg(hit, r.err))]
    ELSE [db |-> addObj(st.db, r.obj, hit),
          unit |-> CatalogArgs(st.unit, hit.args, 1)]

RECURSIVE CatalogLoop(_, _, _)
CatalogLoop(st, hs, k) ==
    IF k > Len(hs) THEN st
    ELSE CatalogLoop(CatalogHit(st, hs[k]), hs, k + 1)

\* Catalog(unit): the returned (db, nil) and the unit as the step leaves it
Catalog(u) ==
    LET st == CatalogLoop([db |-> newAdb, unit |-> u], Input(u), 1) IN
    [out |-> st.db, err |-> NilErr, unit |-> st.unit]

InitCatalog ==
    /\ rev = "part_003"
    /\ steps = NewPipeline(rev)
    /\ added = <<>>
    /\ pc = "InStep"
    /\ i = 0
    /\ pkg = CatalogPkg
    /\ err = NilErr
    /\ out = NilValue
    /\ ret = NoRet
    /\ loaded = NoRet
    /\ loads = 0
    /\ runs = 0
    /\ calls = <<>>
    /\ stderr = <<>>
    /\ cpc = "input"
    /\ hits \in UNION {AnnotationLists(n) : n \in 0..MaxHits}
    /\ unit = newUnit_part_003("Catalog", CatalogPkg, hits)
    /\ db = NoDb
    /\ cret = NilErr
    /\ result = NoResult
    /\ IdleMemory
    /\ IdleDispatch
    /\ IdleParser
    /\ IdleExtra

\* the pipeline runs the Catalog step on the unit
CatalogStep ==
    /\ cpc = "input"
    /\ LET r == Catalog(unit) IN
       /\ db' = r.out
       /\ cret' = r.err
       /\ unit' = r.unit
       /\ stderr' = stderr \o [k \in 1..Len(r.unit.errors) |->
                                  [name |-> unit.name, err |-> r.unit.errors[k]]]
    /\ cpc' = "built"
    /\ UNCHANGED <<pvars, ovars, hits, result>>

Query_All ==
    /\ cpc = "built"
    /\ result' = [op |-> "All", arg |-> <<>>, val |-> All(db)]
    /\ UNCHANGED <<pvars, ovars, unit, stderr, cpc, hits, db, cret>>

Query_Named ==
    /\ cpc = "built"
    /\ \E name \in NameUniverse :
         result' = [op |-> "Named", arg |-> name, val |-> Named(db, name)]
    /\ UNCHANGED <<pvars, ovars, unit, stderr, cpc, hits, db, cret>>

Query_Names ==
    /\ cpc = "built"
    /\ \E order \in RangeOrders(db.name) :
         result' = [op |-> "Names", arg |-> <<>>, val |-> Names(db, order)]
    /\ UNCHANGED <<pvars, ovars, unit, stderr, cpc, hits, db, cret>>

\* the keys the callers of the model ask about
ObjUniverse == {Obj("func Greet"), Obj("type Thing"), NilObj}
PkgUniverse == {"scope"}
NodeUniverse == {FuncDeclNode, GenDeclNode, UncheckedNode}

Query_ForObj ==
    /\ cpc = "built"
    /\ \E obj \in ObjUniverse :
         result' = [op |-> "ForObj", arg |-> obj, val |-> ForObj(db, obj)]
    /\ UNCHANGED <<pvars, ovars, unit, stderr, cpc, hits, db, cret>>

Query_ForPkg ==
    /\ cpc = "built"
    /\ \E p \in PkgUniverse :
         result' = [op |-> "ForPkg", arg |-> p, val |-> ForPkg(db, p)]
    /\ UNCHANGED <<pvars, ovars, unit, stderr, cpc, hits, db, cret>>

Query_ForNode ==
    /\ cpc = "built"
    /\ \E node \in NodeUniverse :
         result' = [op |-> "ForNode", arg |-> node, val |-> ForNode(db, node)]
    /\ UNCHANGED <<pvars, ovars, unit, stderr, cpc, hits, db, cret>>

Query_Objs ==
    /\ cpc = "built"
    /\ \E order \in RangeOrders(db.obj) :
         result' = [op |-> "Objs", arg |-> <<>>, val |-> Objs(db, order)]
    /\ UNCHANGED <<pvars, ovars, unit, stderr, cpc, hits, db, cret>>

Query_Pkgs ==
    /\ cpc = "built"
    /\ \E order \in RangeOrders(db.pkg) :
         result' = [op |-> "Pkgs", arg |-> <<>>, val |-> Pkgs(db, order)]
    /\ UNCHANGED <<pvars, ovars, unit, stderr, cpc, hits, db, cret>>

Query_Nodes ==
    /\ cpc = "built"
    /\ \E order \in RangeOrders(db.node) :
         result' = [op |-> "Nodes", arg |-> <<>>, val |-> Nodes(db, order)]
    /\ UNCHANGED <<pvars, ovars, unit, stderr, cpc, hits, db, cret>>

NextCatalog ==
    \/ CatalogStep
    \/ Query_All
    \/ Query_Named
    \/ Query_Names
    \/ Query_ForObj
    \/ Query_ForPkg
    \/ Query_ForNode
    \/ Query_Objs
    \/ Query_Pkgs
    \/ Query_Nodes

SpecCatalog == InitCatalog /\ [][NextCatalog]_vars

----------------------------------------------------------------------------
(* The adb in memory: slice headers, backing arrays, and what a caller does
   to the slices the queries hand out *)
MaxCopyHits == 1
MaxAppends == 1

\* a slice header; arr = 0 stands for the nil and the zero-sized base
Slice(a, n, c) == [arr |-> a, len |-> n, cap |-> c]
NilSlice == Slice(0, 0, 0)
ZeroCell == [nil |-> "zero value"]

\* the elements a slice shows of its backing array
Elems(h, s) == [k \in 1..s.len |-> h[s.arr][k]]

\* an array of capacity c that starts with q
Pad(q, c) == q \o [k \in 1..(c - Len(q)) |-> ZeroCell]

\* capacity of a slice grown from nil by n appends of one element
RECURSIVE GrowCap(_)
GrowCap(n) ==
    IF n = 0 THEN 0
    ELSE IF n = 1 THEN 1
    ELSE LET c == GrowCap(n - 1) IN IF n <= c THEN c ELSE 2 * c

\* append(s, x): in place when the capacity allows, else into a new array,
\* which takes the caller's slot (the last address) of the heap
GoAppend(h, s, x) ==
    IF s.len < s.cap
    THEN [heap |-> [h EXCEPT ![s.arr][s.len + 1] = x],
          slice |-> Slice(s.arr, s.len + 1, s.cap)]
    ELSE LET c == IF s.cap = 0 THEN 1 ELSE 2 * s.cap IN
         [heap |-> [h EXCEPT ![Len(h)] = Pad(Append(Elems(h, s), x), c)],
          slice |-> Slice(Len(h), s.len + 1, c)]

\* a query that hands out the adb's own slice
CopySlice_Alias(h, s) ==
    [heap |-> [h EXCEPT ![Len(h)] = <<>>], slice |-> s]

\* append([]Annotation{}, s...): a new array holding the elements of s
CopySlice(h, s) ==
    IF s.len = 0
    THEN [heap |-> [h EXCEPT ![Len(h)] = <<>>], slice |-> NilSlice]
    ELSE [heap |-> [h EXCEPT ![Len(h)] = Elems(h, s)],
          slice |-> Slice(Len(h), s.len, s.len)]

\* make([]T, 0, len(m)) followed by one append per key
KeysSlice(h, keys) ==
    IF Len(keys) = 0
    THEN [heap |-> [h EXCEPT ![Len(h)] = <<>>], slice |-> NilSlice]
    ELSE [heap |-> [h EXCEPT ![Len(h)] = keys],
          slice |-> Slice(Len(h), Len(keys), Len(keys))]

\* a missing key reads as the nil slice
MapSlice(m, k) == IF k \in DOMAIN m THEN m[k] ELSE NilSlice

KeyOrder(m) == CHOOSE o \in RangeOrders(m) : TRUE
AddrOf(order, key) == CHOOSE k \in 1..Len(order) : order[k] = key
SliceOf(addr, q) ==
    IF Len(q) = 0 THEN NilSlice ELSE Slice(addr, Len(q), GrowCap(Len(q)))

\* the adb d laid out in memory: one array per index list, each with the
\* capacity its appends gave it, and an empty slot for the caller's array
InMemory(d) ==
    LET names == KeyOrder(d.name)
        objs == KeyOrder(d.obj)
        nodes == KeyOrder(d.node)
        pkgs == KeyOrder(d.pkg)
        lists == <<d.all>> \o [k \in 1..Len(names) |-> d.name[names[k]]]
                           \o [k \in 1..Len(objs) |-> d.obj[objs[k]]]
                           \o [k \in 1..Len(nodes) |-> d.node[nodes[k]]]
                           \o [k \in 1..Len(pkgs) |-> d.pkg[pkgs[k]]]
        a1 == 1
        a2 == a1 + Len(names)
        a3 == a2 + Len(objs)
        a4 == a3 + Len(nodes)
    IN [heap |-> [k \in 1..Len(lists) |->
                     Pad(lists[k], GrowCap(Len(lists[k])))] \o << <<>> >>,
        hdb |-> [all |-> SliceOf(1, d.all),
                 name |-> [n \in DOMAIN d.name |->
                              SliceOf(a1 + AddrOf(names, n), d.name[n])],
                 obj |-> [o \in DOMAIN d.obj |->
                              SliceOf(a2 + AddrOf(objs, o), d.obj[o])],
                 node |-> [n \in DOMAIN d.node |->
                              SliceOf(a3 + AddrOf(nodes, n), d.node[n])],
                 pkg |-> [p \in DOMAIN d.pkg |->
                              SliceOf(a4 + AddrOf(pkgs, p), d.pkg[p])]]]

\* what the caller stores into a slice it got from query op
Scribble(op) ==
    CASE op = "Names" -> <<90>>
      [] op = "Objs" -> Obj("scribble")
      [] op = "Pkgs" -> "scribble"
      [] op = "Nodes" -> [kind |-> "scribble", names |-> <<>>, values |-> 0, pos |-> 0]
      [] OTHER -> [id |-> 0, name |-> <<90>>, from |-> GenDeclNode, args |-> <<>>]

Held(op, s) == [op |-> op, slice |-> s, appends |-> 0]

\* the Catalog step has returned the adb for hits
InitCopy ==
    /\ rev = "part_003"
    /\ steps = NewPipeline(rev)
    /\ added = <<>>
    /\ pc = "InStep"
    /\ i = 0
    /\ pkg = CatalogPkg
    /\ err = NilErr
    /\ out = NilValue
    /\ ret = NoRet
    /\ loaded = NoRet
    /\ loads = 0
    /\ runs = 0
    /\ calls = <<>>
    /\ cpc = "built"
    /\ hits \in UNION {AnnotationLists(n) : n \in 0..MaxCopyHits}
    /\ LET r == Catalog(newUnit_part_003("Catalog", CatalogPkg, hits)) IN
       /\ unit = r.unit
       /\ db = r.out
       /\ cret = r.err
       /\ stderr = [k \in 1..Len(r.unit.errors) |->
                       [name |-> "Catalog", err |-> r.unit.errors[k]]]
    /\ result = NoResult
    /\ heap = InMemory(db).heap
    /\ hdb = InMemory(db).hdb
    /\ held = NoSlice
    /\ IdleDispatch
    /\ IdleParser
    /\ IdleExtra

Copy_All ==
    /\ LET r == CopySlice(heap, hdb.all) IN
       heap' = r.heap /\ held' = Held("All", r.slice)
    /\ UNCHANGED <<xvars, pvars, cvars, dvars, avars, unit, stderr, hdb>>

Copy_Named ==
    /\ \E name \in NameUniverse :
         LET r == CopySlice(heap, MapSlice(hdb.name, name)) IN
         heap' = r.heap /\ held' = Held("Named", r.slice)
    /\ UNCHANGED <<xvars, pvars, cvars, dvars, avars, unit, stderr, hdb>>

Copy_ForObj ==
    /\ \E obj \in ObjUniverse :
         LET r == CopySlice(heap, MapSlice(hdb.obj, obj)) IN
         heap' = r.heap /\ held' = Held("ForObj", r.slice)
    /\ UNCHANGED <<xvars, pvars, cvars, dvars, avars, unit, stderr, hdb>>

Copy_ForPkg ==
    /\ \E p \in PkgUniverse :
         LET r == CopySlice(heap, MapSlice(hdb.pkg, p)) IN
         heap' = r.heap /\ held' = Held("ForPkg", r.slice)
    /\ UNCHANGED <<xvars, pvars, cvars, dvars, avars, unit, stderr, hdb>>

Copy_ForNode ==
    /\ \E node \in NodeUniverse :
         LET r == CopySlice(heap, MapSlice(hdb.node, node)) IN
         heap' = r.heap /\ held' = Held("ForNode", r.slice)
    /\ UNCHANGED <<xvars, pvars, cvars, dvars, avars, unit, stderr, hdb>>

Copy_Names ==
    /\ \E order \in RangeOrders(hdb.name) :
         LET r == KeysSlice(heap, Names(hdb, order)) IN
         heap' = r.heap /\ held' = Held("Names", r.slice)
    /\ UNCHANGED <<xvars, pvars, cvars, dvars, avars, unit, stderr, hdb>>

Copy_Objs ==
    /\ \E order \in RangeOrders(hdb.obj) :
         LET r == KeysSlice(heap, Objs(hdb, order)) IN
         heap' = r.heap /\ held' = Held("Objs", r.slice)
    /\ UNCHANGED <<xvars, pvars, cvars, dvars, avars, unit, stderr, hdb>>

Copy_Pkgs ==
    /\ \E order \in RangeOrders(hdb.pkg) :
         LET r == KeysSlice(heap, Pkgs(hdb, order)) IN
         heap' = r.heap /\ held' = Held("Pkgs", r.slice)
    /\ UNCHANGED <<xvars, pvars, cvars, dvars, avars, unit, stderr, hdb>>

Copy_Nodes ==
    /\ \E order \in RangeOrders(hdb.node) :
         LET r == KeysSlice(heap, Nodes(hdb, order)) IN
         heap' = r.heap /\ held' = Held("Nodes", r.slice)
    /\ UNCHANGED <<xvars, pvars, cvars, dvars, avars, unit, stderr, hdb>>

\* the caller assigns to an element of the slice it holds
Caller_Write ==
    /\ held # NoSlice
    /\ \E k \in 1..held.slice.len :
         heap' = [heap EXCEPT ![held.slice.arr][k] = Scribble(held.op)]
    /\ UNCHANGED <<xvars, pvars, cvars, dvars, avars, unit, stderr, hdb, held>>

\* the caller appends to the slice it holds and keeps the result
Caller_Append ==
    /\ held # NoSlice
    /\ held.appends < MaxAppends
    /\ LET r == GoAppend(heap, held.slice, Scribble(held.op)) IN
       /\ heap' = r.heap
       /\ held' = [held EXCEPT !.slice = r.slice, !.appends = @ + 1]
    /\ UNCHANGED <<xvars, pvars, cvars, dvars, avars, unit, stderr, hdb>>

NextCopy ==
    \/ Copy_All
    \/ Copy_Named
    \/ Copy_ForObj
    \/ Copy_ForPkg
    \/ Copy_ForNode
    \/ Copy_Names
    \/ Copy_Objs
    \/ Copy_Pkgs
    \/ Copy_Nodes
    \/ Caller_Write
    \/ Caller_Append

SpecCopy == InitCopy /\ [][NextCopy]_vars

----------------------------------------------------------------------------
(* CallFunc: the reflective call of a handler *)
MaxParams == 2

\* the Go types of the model; the interface types among them
InterfaceTypes == {"Ref", "Annotation", "error"}
ParamTypes == {"int", "Ref", "Annotation"}
NoType == "nil Type"

\* a Go value that is nothing but its dynamic type
GoValue(t) == [type |-> t]

\* reflect.TypeOf(arg): nil for the nil interface, *annotation for a hit,
\* *ref for a reference, int for an evaluated integer literal
TypeOf(arg) ==
    IF arg = NilValue THEN NoType
    ELSE IF "type" \in DOMAIN arg THEN arg.type
    ELSE IF "id" \in DOMAIN arg THEN "*annotation"
    ELSE IF IsRef(arg) THEN "*ref"
    ELSE "int"

\* the method sets: which dynamic type implements which interface
Implements(have, need) ==
    CASE need = "Ref" -> have \in {"*ref", "*annotation"}
      [] need = "Annotation" -> have = "*annotation"
      [] need = "error" -> have = "*Error"
      [] OTHER -> FALSE

\* a func value: its signature and the error its body returns
Func(ins, outs, variadic, r) ==
    [kind |-> "func", in |-> ins, out |-> outs, variadic |-> variadic, ret |-> r]
NonFunc == [kind |-> "int"]

\* the ways CallFunc ends
Panicked(why) == [panic |-> TRUE, why |-> why, err |-> NilErr, called |-> FALSE]
Failed(why) == [panic |-> FALSE, why |-> why, err |-> Err(why), called |-> FALSE]
Called(e) == [panic |-> FALSE, why |-> "called", err |-> e, called |-> TRUE]
ArgsOK == [panic |-> FALSE, why |-> "args ok", err |-> NilErr, called |-> FALSE]

\* the loop over args in CallFunc, from argument k on
RECURSIVE CheckArgs(_, _, _)
CheckArgs(fn, args, k) ==
    IF k > Len(args) THEN ArgsOK
    ELSE LET need == fn.in[k]
             have == TypeOf(args[k])
         IN IF have = need THEN CheckArgs(fn, args, k + 1)
            ELSE IF have = NoType
                 THEN Panicked("nil pointer dereference in have.Implements")
            ELSE IF need \notin InterfaceTypes
                 THEN Panicked("reflect: non-interface type passed to Type.Implements")
            ELSE IF ~Implements(have, need) THEN Failed("arg: need, have")
            ELSE CheckArgs(fn, args, k + 1)

\* a CallFunc that does not look at the signature of fn
CallFunc_NoSignatureCheck(fn, args) ==
    IF fn = NilValue THEN Panicked("reflect: call of reflect.Value.Type on zero Value")
    ELSE IF fn.kind # "func" THEN Failed("fn not a func")
    ELSE IF Len(fn.in) # Len(args) THEN Failed("need n args, have m args")
    ELSE LET c == CheckArgs(fn, args, 1) IN
         IF c # ArgsOK THEN c
         ELSE IF Len(fn.out) = 1 THEN Called(fn.ret)
         ELSE Called(NilErr)

CallFunc(fn, args) ==
    IF fn = NilValue THEN Panicked("reflect: call of reflect.Value.Type on zero Value")
    ELSE IF fn.kind # "func" THEN Failed("fn not a func")
    ELSE IF fn.variadic THEN Failed("variadic fn not supported")
    ELSE IF Len(fn.out) > 1 THEN Failed("fn returns >1 value")
    ELSE IF Len(fn.out) = 1 /\ fn.out[1] # "error"
         THEN Failed("fn should return error")
    ELSE IF Len(fn.in) # Len(args) THEN Failed("need n args, have m args")
    ELSE LET c == CheckArgs(fn, args, 1) IN
         IF c # ArgsOK THEN c
         ELSE IF Len(fn.out) = 1 THEN Called(fn.ret)
         ELSE Called(NilErr)

\* the func values and argument lists CallFunc is tried on
ParamLists == UNION {[1..n -> ParamTypes] : n \in 0..MaxParams}
ResultLists == {<<>>, <<"error">>, <<"int">>, <<"error", "error">>}
FuncValues ==
    {Func(ins, outs, v, r) : ins \in ParamLists, outs \in ResultLists,
                             v \in BOOLEAN, r \in StepErrs}
        \cup {NonFunc, NilValue}
ArgValues == {NilValue, GoValue("int"), GoValue("*ref"), GoValue("*annotation")}
ArgLists == UNION {[1..n -> ArgValues] : n \in 0..MaxParams}

InitCallFunc ==
    /\ rev = "part_003"
    /\ steps = NewPipeline(rev)
    /\ added = <<>>
    /\ pc = "NotStarted"
    /\ i = 0
    /\ pkg = NilPkg
    /\ err = NilErr
    /\ out = NilValue
    /\ unit = NilUnit
    /\ ret = NoRet
    /\ loaded = NoRet
    /\ loads = 0
    /\ runs = 0
    /\ calls = <<>>
    /\ stderr = <<>>
    /\ cpc = "idle"
    /\ hits = <<>>
    /\ db = NoDb
    /\ cret = NilErr
    /\ result = NoResult
    /\ IdleMemory
    /\ ds = [Funcs |-> <<>>, Out |-> NilValue, Unit |-> NilUnit]
    /\ regs = NoReg
    /\ dpc = "idle"
    /\ dk = 0
    /\ events = <<>>
    /\ dret = NoRet
    /\ cf \in [fn : FuncValues, args : ArgLists, res : {NoRet}]
    /\ IdleParser
    /\ IdleExtra

\* CallFunc(fn, args...) is called and ends
Call_CallFunc ==
    /\ cf # NoCall
    /\ cf.res = NoRet
    /\ cf' = [cf EXCEPT !.res = CallFunc(cf.fn, cf.args)]
    /\ UNCHANGED <<xvars, pvars, cvars, mvars, avars, unit, stderr, ds, regs, dpc, dk,
                   events, dret>>

NextCallFunc == Call_CallFunc

SpecCallFunc == InitCallFunc /\ [][NextCallFunc]_vars

----------------------------------------------------------------------------
(* DispatchStep: handlers registered by name and called once per annotation *)
MaxDispatchHits == 2

DispatchNames == {<<65>>, <<66>>}

\* the []Annotation values the dispatch is run on: every argument count and
\* every name of DispatchNames, by lists of up to n annotations
DispatchLists(n) ==
    { h \in AnnotationLists(n) :
        \A k \in 1..n : /\ h[k].name \in DispatchNames
                        /\ From(h[k]) \in {GenDeclNode, UncheckedNode} }

\* the values passed to On as cb
Handlers ==
    { Func(<<"Annotation">>, <<"error">>, FALSE, NilErr),
      Func(<<"Annotation">>, <<"error">>, FALSE, Err("step failed")),
      Func(<<>>, <<>>, FALSE, NilErr),
      Func(<<"Annotation", "Ref">>, <<>>, FALSE, NilErr),
      Func(<<"Annotation", "int">>, <<>>, FALSE, NilErr),
      Func(<<"Annotation", "Annotation">>, <<>>, FALSE, NilErr),
      Func(<<"Annotation">>, <<>>, TRUE, NilErr),
      Func(<<"Annotation">>, <<"error", "error">>, FALSE, NilErr),
      Func(<<"Annotation">>, <<"int">>, FALSE, NilErr),
      NonFunc,
      NilValue }

UndefinedMsg(hit) == [text |-> "handler undefined", hit |-> hit.id]
FailedMsg(hit, e) == [text |-> "hit: err", hit |-> hit.id, err |-> e]

\* an argument list without the annotation itself
DispatchArgs_NoHit(hit) == hit.args

\* args := append([]interface{}{hit}, hit.Args()...)
DispatchArgs(hit) == <<hit>> \o hit.args

\* a loop body for which a missing handler ends the step
DispatchHit_UndefinedFatal(u, funcs, hit) ==
    IF hit.name \in DOMAIN funcs
    THEN LET r == CallFunc(funcs[hit.name], DispatchArgs(hit)) IN
         IF r.panic
         THEN [unit |-> u, kind |-> "panicked", called |-> FALSE, err |-> NilErr]
         ELSE IF r.err # NilErr
         THEN LET v == Errorf(u, From(hit).pos, FailedMsg(hit, r.err)) IN
              [unit |-> v, kind |-> "failed", called |-> r.called,
               err |-> Last(v.errors)]
         ELSE [unit |-> u, kind |-> "called", called |-> r.called, err |-> NilErr]
    ELSE LET v == Errorf(u, From(hit).pos, UndefinedMsg(hit)) IN
         [unit |-> v, kind |-> "failed", called |-> FALSE, err |-> Last(v.errors)]

\* one iteration of Run's loop over db.All(): how it ends (called: go on;
\* undefined: go on; failed: return err; panicked), whether the handler was
\* invoked, and the unit as the iteration leaves it
DispatchHit(u, funcs, hit) ==
    IF hit.name \in DOMAIN funcs
    THEN LET r == CallFunc(funcs[hit.name], DispatchArgs(hit)) IN
         IF r.panic
         THEN [unit |-> u, kind |-> "panicked", called |-> FALSE, err |-> NilErr]
         ELSE IF r.err # NilErr
         THEN LET v == Errorf(u, From(hit).pos, FailedMsg(hit, r.err)) IN
              [unit |-> v, kind |-> "failed", called |-> r.called,
               err |-> Last(v.errors)]
         ELSE [unit |-> u, kind |-> "called", called |-> r.called, err |-> NilErr]
    ELSE [unit |-> Errorf(u, From(hit).pos, UndefinedMsg(hit)),
          kind |-> "undefined", called |-> FALSE, err |-> NilErr]

\* a DispatchStep without handlers, about to be configured and then run on a
\* unit whose input is the adb of hits, or is not an AnnotationAPI at all
InitDispatch ==
    /\ rev = "part_003"
    /\ steps = NewPipeline(rev)
    /\ added = <<>>
    /\ pc = "InStep"
    /\ i = 0
    /\ pkg = CatalogPkg
    /\ err = NilErr
    /\ out = NilValue
    /\ ret = NoRet
    /\ loaded = NoRet
    /\ loads = 0
    /\ runs = 0
    /\ calls = <<>>
    /\ stderr = <<>>
    /\ cpc = "built"
    /\ cret = NilErr
    /\ result = NoResult
    /\ \/ /\ hits \in UNION {DispatchLists(n) : n \in 0..MaxDispatchHits}
          /\ db = Catalog(newUnit_part_003("Catalog", CatalogPkg, hits)).out
       \/ /\ hits = <<>>
          /\ db = NoDb
    /\ unit = newUnit_part_003("Dispatch", CatalogPkg,
                               IF db = NoDb THEN NilValue ELSE db)
    /\ IdleMemory
    /\ ds = [Funcs |-> <<>>, Out |-> [v |-> 1], Unit |-> NilUnit]
    /\ regs = NoReg
    /\ dpc = "config"
    /\ dk = 0
    /\ events = <<>>
    /\ dret = NoRet
    /\ IdleCallFunc
    /\ IdleParser
    /\ IdleExtra

\* ds.On(name, cb)
On ==
    /\ dpc = "config"
    /\ \E name \in DispatchNames, cb \in Handlers :
         /\ ds' = [ds EXCEPT !.Funcs = MapPut(ds.Funcs, name, cb)]
         /\ regs' = [name |-> name, cb |-> cb, again |-> name \in DOMAIN ds.Funcs]
    /\ UNCHANGED <<xvars, pvars, cvars, mvars, avars, unit, stderr, dpc, dk, events,
                   dret, cf>>

\* Run up to its loop: ds.Unit = unit and the type assertion on unit.Input()
Dispatch_Run ==
    /\ dpc = "config"
    /\ ds' = [ds EXCEPT !.Unit = [name |-> unit.name]]
    /\ IF Input(unit) = NilValue
       THEN /\ dpc' = "returned"
            /\ dret' = [out |-> NilValue, err |-> Err("input is not an AnnotationAPI")]
            /\ dk' = dk
       ELSE /\ dpc' = "running"
            /\ dk' = 1
            /\ dret' = dret
    /\ UNCHANGED <<xvars, pvars, cvars, mvars, avars, unit, stderr, regs, events, cf>>

\* one iteration of the loop over db.All()
Dispatch_Hit ==
    /\ dpc = "running"
    /\ dk <= Len(All(Input(unit)))
    /\ LET hit == All(Input(unit))[dk]
           r == DispatchHit(unit, ds.Funcs, hit)
       IN /\ unit' = r.unit
          /\ stderr' = stderr \o [k \in 1..(Len(r.unit.errors) - Len(unit.errors)) |->
                                     [name |-> unit.name,
                                      err |-> r.unit.errors[Len(unit.errors) + k]]]
          /\ events' = Append(events, [hit |-> hit.id, kind |-> r.kind,
                                       called |-> r.called])
          /\ CASE r.kind = "panicked" ->
                    dpc' = "panicked" /\ dk' = dk /\ dret' = dret
               [] r.kind = "failed" ->
                    /\ dpc' = "returned"
                    /\ dk' = dk
                    /\ dret' = [out |-> ds.Out, err |-> r.err]
               [] OTHER ->
                    dpc' = dpc /\ dk' = dk + 1 /\ dret' = dret
    /\ UNCHANGED <<xvars, pvars, cvars, mvars, avars, ds, regs, cf>>

\* the loop is over: return ds.Out, nil
Dispatch_Return ==
    /\ dpc = "running"
    /\ dk > Len(All(Input(unit)))
    /\ dpc' = "returned"
    /\ dret' = [out |-> ds.Out, err |-> NilErr]
    /\ UNCHANGED <<xvars, pvars, cvars, mvars, avars, unit, stderr, ds, regs, dk,
                   events, cf>>

NextDispatch ==
    \/ On
    \/ Dispatch_Run
    \/ Dispatch_Hit
    \/ Dispatch_Return

SpecDispatch == InitDispatch /\ [][NextDispatch]_vars

----------------------------------------------------------------------------
(* Parser: the annotations in the doc comments of the declarations *)
MaxLines == 3

MaxArgs == 2

\* argument syntax of a call expression; the value of a literal is its text
Ident(name) == [node |-> "Ident", name |-> name]
BasicLit(kind, v) == [node |-> "BasicLit", kind |-> kind, value |-> v]
UnaryExpr(op, x) == [node |-> "UnaryExpr", op |-> op, x |-> x]
OtherExpr == [node |-> "BinaryExpr"]

\* literal texts, as character codes: 5, 0x1, 1.5, "a" and 'c'
Five == <<53>>
Hex1 == <<48, 120, 49>>
OneAndHalf == <<49, 46, 53>>
QuotedA == <<34, 97, 34>>
CharC == <<39, 99, 39>>

\* where things stand in the text: the length of a line of comment text, the
\* end of the marker match in its line, the offset of the first argument in
\* a call chunk and the distance from one argument to the next
LineLen == 40
MarkerEnd == 4
CallHead == 6
ArgStride == 10
ArgOffset(j) == CallHead + ArgStride * (j - 1)

\* the chunk after an annotation marker, as parser.ParseExpr sees it; an
\* error of the scanner stands at a column of the chunk, counted from 1
ParsedCall(args) == [parse |-> "ok", expr |-> "CallExpr", args |-> args, col |-> 0]
ParsedOther == [parse |-> "ok", expr |-> "BinaryExpr", args |-> <<>>, col |-> 0]
Unparsed == [parse |-> "scanner.ErrorList", expr |-> "none", args |-> <<>>, col |-> 5]

\* the lines of comment text: without a marker, or a marker and its chunk
PlainLine == [marker |-> FALSE, chunk |-> Unparsed]
Marked(chunk) == [marker |-> TRUE, chunk |-> chunk]
LineKinds ==
    { PlainLine,
      Marked(ParsedCall(<<Ident("Thing"), BasicLit("INT", Five)>>)),
      Marked(Unparsed),
      Marked(ParsedOther),
      Marked(ParsedCall(<<BasicLit("CHAR", CharC), OtherExpr>>)) }

\* the arguments a call is written with
ArgNodes ==
    { Ident("Thing"), OtherExpr,
      BasicLit("INT", Five), BasicLit("INT", Hex1), BasicLit("FLOAT", OneAndHalf),
      BasicLit("STRING", QuotedA), BasicLit("CHAR", CharC),
      UnaryExpr("-", BasicLit("INT", Five)),
      UnaryExpr("-", BasicLit("FLOAT", OneAndHalf)),
      UnaryExpr("-", BasicLit("STRING", QuotedA)),
      UnaryExpr("+", BasicLit("INT", Five)),
      UnaryExpr("-", UnaryExpr("-", BasicLit("INT", Five))),
      UnaryExpr("-", Ident("Thing")),
      UnaryExpr("!", Ident("Thing")) }
CallLines ==
    UNION { { Marked(ParsedCall(args)) : args \in [1..n -> ArgNodes] } :
              n \in 0..MaxArgs }

\* where a line of the source stands: in the comment of the line before it, in
\* the next comment of the same group, or in the doc of the next declaration
Breaks == {"line", "comment", "decl"}
FlatSources ==
    UNION { { f \in [1..n -> [line : LineKinds, brk : Breaks]] :
                n > 0 => f[1].brk = "decl" } : n \in 0..MaxLines }

DeclKinds == <<"GenDecl", "FuncDecl", "Field">>

\* the declarations with their doc comment groups that the lines f make up
RECURSIVE Nest(_, _, _)
Nest(f, k, acc) ==
    IF k > Len(f) THEN acc
    ELSE LET n == Len(acc) IN
         Nest(f, k + 1,
              CASE f[k].brk = "decl" ->
                     Append(acc, [kind |-> DeclKinds[(n % 3) + 1], pos |-> n + 1,
                                  doc |-> << <<f[k].line>> >>])
                [] f[k].brk = "comment" ->
                     [acc EXCEPT ![n].doc = Append(@, <<f[k].line>>)]
                [] OTHER ->
                     [acc EXCEPT ![n].doc[Len(acc[n].doc)] = Append(@, f[k].line)])

\* a candidate is known by its declaration, comment and line
Key(d, c, l) == [decl |-> d, comment |-> c, line |-> l]

\* token.Pos of an offset in the file set parser.ParseExpr makes for a chunk
PosOf(offset) == 1 + offset

\* comment.Pos(): every declaration has room for MaxLines + 1 comments of
\* MaxLines + 1 lines
CommentPos(d, c) ==
    1 + LineLen * (MaxLines + 1) * ((MaxLines + 1) * (d - 1) + (c - 1))
\* offset := m[1] of the match in line l of the comment
MatchEnd(l) == LineLen * (l - 1) + MarkerEnd

\* toStr: the node as the printer writes it
RECURSIVE toStr(_)
toStr(node) ==
    CASE node.node = "BasicLit" -> node.value
      [] node.node = "UnaryExpr" ->
           <<(CASE node.op = "-" -> 45 [] node.op = "+" -> 43 [] OTHER -> 33)>>
               \o toStr(node.x)
      [] OTHER -> <<>>

IsDigits(s) == s # <<>> /\ \A k \in 1..Len(s) : s[k] \in 48..57
RECURSIVE Decimal(_)
Decimal(s) ==
    IF s = <<>> THEN 0
    ELSE 10 * Decimal(SubSeq(s, 1, Len(s) - 1)) + (s[Len(s)] - 48)
Signed(s) == s # <<>> /\ s[1] \in {43, 45}
Unsigned(s) == IF Signed(s) THEN Tail(s) ELSE s
Sign(s) == IF s # <<>> /\ s[1] = 45 THEN 0 - 1 ELSE 1

\* strconv.Atoi: an optional sign and decimal digits (texts short enough
\* not to leave the range of int)
Atoi(s) ==
    IF IsDigits(Unsigned(s))
    THEN [val |-> Lit(Sign(s) * Decimal(Unsigned(s))), err |-> NilErr]
    ELSE [val |-> Lit(0), err |-> Err("strconv.Atoi: invalid syntax")]

\* strconv.ParseFloat of a decimal text without exponent: the value is
\* mant * 10^exp
ParseFloat(s) ==
    LET body == Unsigned(s)
        dots == { k \in 1..Len(body) : body[k] = 46 }
        dot == IF dots = {} THEN Len(body) + 1 ELSE CHOOSE k \in dots : TRUE
        digits == SubSeq(body, 1, dot - 1) \o SubSeq(body, dot + 1, Len(body))
        fraction == IF dots = {} THEN 0 ELSE Len(body) - dot
    IN IF Cardinality(dots) <= 1 /\ IsDigits(digits)
       THEN [val |-> Lit([mant |-> Sign(s) * Decimal(digits),
                          exp |-> 0 - fraction]),
             err |-> NilErr]
       ELSE [val |-> Lit(0), err |-> Err("strconv.ParseFloat: invalid syntax")]

\* strconv.Unquote of a text without escapes: what stands between two equal
\* quotes
Unquote(s) ==
    IF Len(s) >= 2 /\ s[1] \in {34, 39, 96} /\ s[Len(s)] = s[1]
          /\ (s[1] = 39 => Len(s) = 3)
    THEN [val |-> Lit([str |-> SubSeq(s, 2, Len(s) - 1)]), err |-> NilErr]
    ELSE [val |-> Lit([str |-> <<>>]), err |-> Err("invalid syntax")]

\* an evalLit that takes any operator in front of a literal
evalLit_AnyOperator(node) ==
    LET unary == node.node = "UnaryExpr" IN
    IF unary /\ node.x.node # "BasicLit"
    THEN [val |-> NilValue, err |-> Err("not a basic literal")]
    ELSE IF ~unary /\ node.node # "BasicLit"
    THEN [val |-> NilValue, err |-> Err("not a basic literal or unary expr")]
    ELSE LET lit == IF unary THEN node.x ELSE node
             str == toStr(node)
             r == CASE lit.kind = "STRING" -> Unquote(str)
                    [] lit.kind = "INT" -> Atoi(str)
                    [] lit.kind = "FLOAT" -> ParseFloat(str)
                    [] OTHER -> [val |-> NilValue,
                                 err |-> Err("Literal type not handled")]
         IN IF r.err # NilErr THEN [val |-> NilValue, err |-> r.err] ELSE r

\* evalLit: the value of a basic literal, or of a minus and a basic literal
evalLit(node) ==
    LET unary == node.node = "UnaryExpr" IN
    IF unary /\ node.x.node # "BasicLit"
    THEN [val |-> NilValue, err |-> Err("not a basic literal")]
    ELSE IF unary /\ node.op # "-"
    THEN [val |-> NilValue, err |-> Err("unsupported unary operator")]
    ELSE IF ~unary /\ node.node # "BasicLit"
    THEN [val |-> NilValue, err |-> Err("not a basic literal or unary expr")]
    ELSE LET lit == IF unary THEN node.x ELSE node
             str == toStr(node)
             r == CASE lit.kind = "STRING" -> Unquote(str)
                    [] lit.kind = "INT" -> Atoi(str)
                    [] lit.kind = "FLOAT" -> ParseFloat(str)
                    [] OTHER -> [val |-> NilValue,
                                 err |-> Err("Literal type not handled")]
         IN IF r.err # NilErr THEN [val |-> NilValue, err |-> r.err] ELSE r

\* an argument loop that puts each evaluated argument in front of the others
RECURSIVE EvalArgs_Reversed(_, _, _, _, _)
EvalArgs_Reversed(cargs, startPos, from, j, done) ==
    IF j > Len(cargs) THEN [args |-> done, err |-> NilErr, pos |-> 0]
    ELSE LET arg == cargs[j]
             argPos == PosOf(ArgOffset(j))
         IN
         CASE arg.node = "Ident" ->
                EvalArgs_Reversed(cargs, startPos, from, j + 1,
                    <<Ref(<<arg.name>>, from, startPos + argPos)>> \o done)
           [] arg.node \in {"BasicLit", "UnaryExpr"} ->
                IF evalLit(arg).err # NilErr
                THEN [args |-> <<>>, err |-> evalLit(arg).err, pos |-> argPos]
                ELSE EvalArgs_Reversed(cargs, startPos, from, j + 1,
                                       <<evalLit(arg).val>> \o done)
           [] OTHER -> [args |-> <<>>, err |-> Err("unsupported syntax"),
                        pos |-> argPos]

\* the loop over call.Args: the evaluated arguments, or the first error and
\* the position makeErr is called with
RECURSIVE EvalArgs(_, _, _, _, _)
EvalArgs(cargs, startPos, from, j, done) ==
    IF j > Len(cargs) THEN [args |-> done, err |-> NilErr, pos |-> 0]
    ELSE LET arg == cargs[j]
             argPos == PosOf(ArgOffset(j))
         IN
         CASE arg.node = "Ident" ->
                EvalArgs(cargs, startPos, from, j + 1,
                         Append(done, Ref(<<arg.name>>, from, startPos + argPos)))
           [] arg.node \in {"BasicLit", "UnaryExpr"} ->
                IF evalLit(arg).err # NilErr
                THEN [args |-> <<>>, err |-> evalLit(arg).err, pos |-> argPos]
                ELSE EvalArgs(cargs, startPos, from, j + 1,
                              Append(done, evalLit(arg).val))
           [] OTHER -> [args |-> <<>>, err |-> Err("unsupported syntax"),
                        pos |-> argPos]

NilHit == [nil |-> "*annotation"]
\* p.Errorf(pos, "%s: %v", chunk, msg)
ErrorfCall(key, pos, e) == [key |-> key, pos |-> pos, chunk |-> "chunk", err |-> e]

\* a parseAnnotationAt that still returns an annotation, without arguments,
\* when an argument fails
parseAnnotationAt_KeepPartial(key, startPos, chunk, from) ==
    IF chunk.parse # "ok"
    THEN [hit |-> NilHit,
          errs |-> <<ErrorfCall(key, chunk.col, Err(chunk.parse))>>]
    ELSE IF chunk.expr # "CallExpr"
    THEN [hit |-> NilHit,
          errs |-> <<ErrorfCall(key, PosOf(0), Err("not a func call"))>>]
    ELSE LET r == EvalArgs(chunk.args, startPos, from, 1, <<>>) IN
         [hit |-> [key |-> key, from |-> from, args |-> r.args,
                   pos |-> startPos + PosOf(0)],
          errs |-> IF r.err # NilErr THEN <<ErrorfCall(key, r.pos, r.err)>>
                   ELSE <<>>]

\* parseAnnotationAt: the annotation of the chunk, or nil and one call of
\* p.Errorf through makeErr, which hands on the position it is given
parseAnnotationAt(key, startPos, chunk, from) ==
    IF chunk.parse # "ok"
    THEN [hit |-> NilHit,
          errs |-> <<ErrorfCall(key, chunk.col, Err(chunk.parse))>>]
    ELSE IF chunk.expr # "CallExpr"
    THEN [hit |-> NilHit,
          errs |-> <<ErrorfCall(key, PosOf(0), Err("not a func call"))>>]
    ELSE LET r == EvalArgs(chunk.args, startPos, from, 1, <<>>) IN
         IF r.err # NilErr
         THEN [hit |-> NilHit, errs |-> <<ErrorfCall(key, r.pos, r.err)>>]
         ELSE [hit |-> [key |-> key, from |-> from, args |-> r.args,
                        pos |-> startPos + PosOf(0)],
               errs |-> <<>>]

\* rg.FindAllStringIndex: the lines of the comment that begin an annotation
Matches(comment) == { l \in 1..Len(comment) : comment[l].marker }

\* a ParseComment that gives up at the first candidate that fails
RECURSIVE ParseComment_StopAtError(_, _, _, _, _, _)
ParseComment_StopAtError(comment, d, c, from, l, acc) ==
    IF l > Len(comment) THEN acc
    ELSE IF l \notin Matches(comment)
    THEN ParseComment_StopAtError(comment, d, c, from, l + 1, acc)
    ELSE LET r == parseAnnotationAt(Key(d, c, l), CommentPos(d, c) + MatchEnd(l),
                                   comment[l].chunk, from) IN
         IF r.hit = NilHit
         THEN [hits |-> acc.hits, errs |-> acc.errs \o r.errs]
         ELSE ParseComment_StopAtError(comment, d, c, from, l + 1,
                  [hits |-> Append(acc.hits, r.hit), errs |-> acc.errs \o r.errs])

\* ParseComment: the loop over the matches from line l on; acc holds the hits
\* and the Errorf calls so far
RECURSIVE ParseComment(_, _, _, _, _, _)
ParseComment(comment, d, c, from, l, acc) ==
    IF l > Len(comment) THEN acc
    ELSE IF l \notin Matches(comment)
    THEN ParseComment(comment, d, c, from, l + 1, acc)
    ELSE LET r == parseAnnotationAt(Key(d, c, l), CommentPos(d, c) + MatchEnd(l),
                                   comment[l].chunk, from) IN
         ParseComment(comment, d, c, from, l + 1,
                      [hits |-> IF r.hit # NilHit THEN Append(acc.hits, r.hit)
                                ELSE acc.hits,
                       errs |-> acc.errs \o r.errs])

\* the comment after comment c of declaration d, in the order ast.Inspect and
\* ParseCommentGroup take them
NextComment(src, d, c) ==
    IF d <= Len(src) /\ c < Len(src[d].doc)
    THEN [decl |-> d, comment |-> c + 1]
    ELSE [decl |-> d + 1, comment |-> 1]

\* a Parser with its Errorf set, before Parse(root)
InitParser ==
    /\ rev = "part_003"
    /\ steps = NewPipeline(rev)
    /\ added = <<>>
    /\ pc = "InStep"
    /\ i = 0
    /\ pkg = CatalogPkg
    /\ err = NilErr
    /\ out = NilValue
    /\ unit = newUnit_part_003("Parse", CatalogPkg, NilValue)
    /\ ret = NoRet
    /\ loaded = NoRet
    /\ loads = 0
    /\ runs = 0
    /\ calls = <<>>
    /\ stderr = <<>>
    /\ cpc = "idle"
    /\ hits = <<>>
    /\ db = NoDb
    /\ cret = NilErr
    /\ result = NoResult
    /\ IdleMemory
    /\ IdleDispatch
    /\ psrc \in {Nest(f, 1, <<>>) : f \in FlatSources}
                \cup { Nest(<<[line |-> line, brk |-> "decl"]>>, 1, <<>>) :
                         line \in CallLines }
    /\ ppc = "parsing"
    /\ pcur = [decl |-> 1, comment |-> 1]
    /\ pout = <<>>
    /\ perrs = <<>>
    /\ IdleExtra

\* ParseComment on the next comment of the traversal
Parse_Comment ==
    /\ ppc = "parsing"
    /\ pcur.decl <= Len(psrc)
    /\ LET decl == psrc[pcur.decl]
           from == [kind |-> decl.kind, names |-> <<>>, values |-> 0, pos |-> decl.pos]
           r == ParseComment(decl.doc[pcur.comment], pcur.decl, pcur.comment,
                             from, 1, [hits |-> <<>>, errs |-> <<>>])
       IN /\ pout' = pout \o r.hits
          /\ perrs' = perrs \o r.errs
    /\ pcur' = NextComment(psrc, pcur.decl, pcur.comment)
    /\ UNCHANGED <<xvars, pvars, cvars, mvars, dvars, unit, stderr, psrc, ppc>>

\* ast.Inspect is through: Parse returns hits
Parse_Return ==
    /\ ppc = "parsing"
    /\ pcur.decl > Len(psrc)
    /\ ppc' = "done"
    /\ UNCHANGED <<xvars, pvars, cvars, mvars, dvars, unit, stderr, psrc, pcur, pout,
                   perrs>>

NextParser ==
    \/ Parse_Comment
    \/ Parse_Return

SpecParser == InitParser /\ [][NextParser]_vars

----------------------------------------------------------------------------
(* LookupRef on its own *)
MaxPath == 3

\* the names a selector is written with, and the selectors
PathNames == {"Thing", "Greeting", "fmt", "Sprintf", "int", "Nope"}
Paths == UNION { [1..n -> PathNames] : n \in 1..MaxPath }

InitLookup ==
    /\ rev = "part_003"
    /\ steps = NewPipeline(rev)
    /\ added = <<>>
    /\ pc = "NotStarted"
    /\ i = 0
    /\ pkg = CatalogPkg
    /\ err = NilErr
    /\ out = NilValue
    /\ unit = NilUnit
    /\ ret = NoRet
    /\ loaded = NoRet
    /\ loads = 0
    /\ runs = 0
    /\ calls = <<>>
    /\ stderr = <<>>
    /\ cpc = "idle"
    /\ hits = <<>>
    /\ db = NoDb
    /\ cret = NilErr
    /\ result = NoResult
    /\ IdleMemory
    /\ IdleDispatch
    /\ IdleParser
    /\ lk \in [ref : {Ref(path, FuncDeclNode, 21) : path \in Paths}, res : {NoRet}]
    /\ IdleShell

\* LookupRef(pkg, r) is called and returns
Lookup_Call ==
    /\ lk # NoLookup
    /\ lk.res = NoRet
    /\ lk' = [lk EXCEPT !.res = LookupRef(pkg.Pkg, lk.ref)]
    /\ UNCHANGED <<pvars, cvars, mvars, dvars, avars, unit, stderr, spf, msh, shl>>

NextLookup == Lookup_Call

SpecLookup == InitLookup /\ [][NextLookup]_vars

----------------------------------------------------------------------------
(* package shell: ScriptPrintf *)
MaxPieces == 3

\* the engine, the catalog, the dispatcher and the parser are not in use
IdleEngine ==
    /\ rev = "part_003"
    /\ steps = NewPipeline(rev)
    /\ added = <<>>
    /\ pc = "NotStarted"
    /\ i = 0
    /\ pkg = NilPkg
    /\ err = NilErr
    /\ out = NilValue
    /\ unit = NilUnit
    /\ ret = NoRet
    /\ loaded = NoRet
    /\ loads = 0
    /\ runs = 0
    /\ calls = <<>>
    /\ stderr = <<>>
    /\ cpc = "idle"
    /\ hits = <<>>
    /\ db = NoDb
    /\ cret = NilErr
    /\ result = NoResult
    /\ IdleMemory
    /\ IdleDispatch
    /\ IdleParser
    /\ IdleLookup

\* strings are sequences of character codes: "a", "a a" and "$a"
WordA == <<97>>
TwoWords == <<97, 32, 97>>
DollarA == <<36, 97>>
VerbS == <<37, 115>>

\* operands: a Go string or a shell.Raw
Str(t) == [type |-> "string", text |-> t]
Raw(t) == [type |-> "Raw", text |-> t]
Operands == { Str(WordA), Str(TwoWords), Str(DollarA),
              Raw(WordA), Raw(TwoWords), Raw(DollarA) }

\* format strings: up to MaxPieces pieces, each a letter, a space or %s
Pieces == {WordA, <<32>>, VerbS}
RECURSIVE Flatten(_)
Flatten(ps) == IF ps = <<>> THEN <<>> ELSE Head(ps) \o Flatten(Tail(ps))
Formats == { Flatten(ps) : ps \in UNION { [1..n -> Pieces] : n \in 1..MaxPieces } }
Verbs(f) == Cardinality({ k \in 1..Len(f) : f[k] = 37 })

\* shellquote.Join of one word without single quotes: '' for the empty word,
\* the word in single quotes if it holds a space, else the word with a
\* backslash before each special character
RECURSIVE Backslashed(_)
Backslashed(w) ==
    IF w = <<>> THEN <<>>
    ELSE (IF Head(w) = 36 THEN <<92, 36>> ELSE <<Head(w)>>) \o Backslashed(Tail(w))
Join(w) ==
    IF w = <<>> THEN <<39, 39>>
    ELSE IF \E k \in 1..Len(w) : w[k] = 32 THEN <<39>> \o w \o <<39>>
    ELSE Backslashed(w)

\* Escape: a Raw as it is, a string quoted for the shell
Escape(val) == IF val.type = "Raw" THEN Raw(val.text) ELSE Raw(Join(val.text))

\* fmt.Sprintf for formats whose only verb is %s and operands that are
\* strings: each %s is replaced by the next operand
RECURSIVE Sprintf(_, _)
Sprintf(f, vs) ==
    IF f = <<>> THEN <<>>
    ELSE IF Len(f) >= 2 /\ f[1] = 37 /\ f[2] = 115 /\ vs # <<>>
    THEN Head(vs).text \o Sprintf(SubSeq(f, 3, Len(f)), Tail(vs))
    ELSE <<Head(f)>> \o Sprintf(Tail(f), vs)

\* ScriptPrintf fills escaped and then formats vs
ScriptPrintf(scriptformat, vs) ==
    LET escaped == [k \in 1..Len(vs) |-> Str(Escape(vs[k]).text)] IN
    Sprintf(scriptformat, vs)

InitScriptPrintf ==
    /\ IdleEngine
    /\ spf \in { [format |-> f, vs |-> vs, out |-> <<>>, done |-> FALSE] :
                    f \in Formats, vs \in UNION { [1..n -> Operands] : n \in 0..MaxPieces } }
    /\ Len(spf.vs) = Verbs(spf.format)
    /\ msh = NoMockShell
    /\ shl = NoShell

\* ScriptPrintf(format, vs...) is called and returns
Call_ScriptPrintf ==
    /\ spf # NoPrintf
    /\ ~spf.done
    /\ spf' = [spf EXCEPT !.out = ScriptPrintf(spf.format, spf.vs), !.done = TRUE]
    /\ UNCHANGED <<pvars, cvars, mvars, dvars, avars, unit, stderr, lk, msh, shl>>

NextScriptPrintf == Call_ScriptPrintf

SpecScriptPrintf == InitScriptPrintf /\ [][NextScriptPrintf]_vars

----------------------------------------------------------------------------
(* package shell: MockShell *)
MaxMocks == 2
MaxMockRuns == 2

Scripts == {"echo", "ls"}
MockCall(script, status) == [Script |-> script, ExitStatus |-> status]
MockCalls == { MockCall(s, e) : s \in Scripts, e \in {0, 1} }

\* a map that was never made
NilMap == [nil |-> "map"]

\* &MockShell{...}: the exported fields as the caller sets them; asked lists
\* the calls of AddMock and ran the runs, in order
NewMockShell(allow, loop) ==
    [Mocks |-> NilMap, mockProgress |-> NilMap, AllowUnmocked |-> allow,
     LoopMocks |-> loop, asked |-> <<>>, ran |-> <<>>, panicked |-> FALSE]

\* reading a map, nil or not
MocksOf(m, script) ==
    IF m.Mocks = NilMap THEN <<>> ELSE MapGet(m.Mocks, script)
ProgressOf(m, script) ==
    IF m.mockProgress = NilMap \/ script \notin DOMAIN m.mockProgress THEN 0
    ELSE m.mockProgress[script]

\* AddMock: make the map if there is none, append the call to its script's
\* list
AddMock(m, call) ==
    LET made == IF m.Mocks = NilMap THEN <<>> ELSE m.Mocks IN
    [m EXCEPT !.Mocks = MapPut(made, call.Script,
                               Append(MapGet(made, call.Script), call)),
              !.asked = Append(@, call)]

\* popMock: the mock of this run, nil for a script that may run unmocked, or
\* a panic; writing into a map that was never made panics
popMock(m, script) ==
    LET mocks == MocksOf(m, script)
        index == IF m.LoopMocks /\ Len(mocks) > 0
                 THEN ProgressOf(m, script) % Len(mocks)
                 ELSE ProgressOf(m, script)
    IN IF Len(mocks) = 0
       THEN IF m.AllowUnmocked
            THEN [kind |-> "unmocked", index |-> 0, progress |-> m.mockProgress]
            ELSE [kind |-> "panic: No mocks configured for script", index |-> 0,
                  progress |-> m.mockProgress]
       ELSE IF index >= Len(mocks)
       THEN [kind |-> "panic: index out of range", index |-> index,
             progress |-> m.mockProgress]
       ELSE IF m.mockProgress = NilMap
       THEN [kind |-> "panic: assignment to entry in nil map", index |-> index,
             progress |-> m.mockProgress]
       ELSE [kind |-> "mock", index |-> index,
             progress |-> MapPut(m.mockProgress, script, index + 1)]

InitMockShell ==
    /\ IdleEngine
    /\ spf = NoPrintf
    /\ msh \in { NewMockShell(allow, loop) : allow \in BOOLEAN, loop \in BOOLEAN }
    /\ shl = NoShell

\* sh.AddMock(call)
Mock_AddMock ==
    /\ msh # NoMockShell
    /\ ~msh.panicked
    /\ Len(msh.asked) < MaxMocks
    /\ \E call \in MockCalls : msh' = AddMock(msh, call)
    /\ UNCHANGED <<pvars, cvars, mvars, dvars, avars, unit, stderr, lk, spf, shl>>

\* a run of a script through Out, OutStatus, OutErrStatus, Run or Succeeds:
\* each begins with popMock(script)
Mock_Run ==
    /\ msh # NoMockShell
    /\ ~msh.panicked
    /\ Len(msh.ran) < MaxMockRuns
    /\ \E script \in Scripts :
          LET r == popMock(msh, script) IN
          msh' = [msh EXCEPT
                    !.mockProgress = r.progress,
                    !.panicked = r.kind \notin {"mock", "unmocked"},
                    !.ran = Append(@, [script |-> script, kind |-> r.kind,
                                       index |-> r.index,
                                       had |-> Len(MocksOf(msh, script))])]
    /\ UNCHANGED <<pvars, cvars, mvars, dvars, avars, unit, stderr, lk, spf, shl>>

NextMockShell ==
    \/ Mock_AddMock
    \/ Mock_Run

SpecMockShell == InitMockShell /\ [][NextMockShell]_vars

----------------------------------------------------------------------------
(* package shell: Shell.Must, onError and LastError *)
MaxShellOps == 4

NilExit == [nil |-> "*exec.ExitError"]
ExitError(status) == [status |-> status]

\* how cmd.Run / cmd.Output ends: nil, an *exec.ExitError, or another error
Exited(status) == [kind |-> "exit", status |-> status]
Unexpected == [kind |-> "error", status |-> 0]
Outcomes == {Exited(0), Exited(1), Exited(2), Unexpected}

\* &Shell{...}; ops lists the calls of Must and the executions, in order
NewShell(ignore) ==
    [lastError |-> NilExit, panicOnNextError |-> FALSE,
     IgnoreUnexpectedErrors |-> ignore, ops |-> <<>>]

Must(s) == [s EXCEPT !.panicOnNextError = TRUE]

\* onError(err), with its deferred reset of panicOnNextError: the shell
\* afterwards and what it panicked with, if it did
onError(s, outcome) ==
    LET cleared == [s EXCEPT !.panicOnNextError = FALSE] IN
    IF outcome = Exited(0)
    THEN [sh |-> [cleared EXCEPT !.lastError = NilExit], panic |-> "none"]
    ELSE IF outcome.kind = "exit"
    THEN [sh |-> [cleared EXCEPT !.lastError = ExitError(outcome.status)],
          panic |-> IF s.panicOnNextError THEN "status" ELSE "none"]
    ELSE [sh |-> cleared,
          panic |-> IF s.IgnoreUnexpectedErrors THEN "none" ELSE "err"]

LastError(s) == s.lastError

InitShell ==
    /\ IdleEngine
    /\ spf = NoPrintf
    /\ msh = NoMockShell
    /\ shl \in { NewShell(ignore) : ignore \in BOOLEAN }

\* sh.Must()
Shell_Must ==
    /\ shl # NoShell
    /\ Len(shl.ops) < MaxShellOps
    /\ shl' = [Must(shl) EXCEPT !.ops = Append(@, [op |-> "Must",
                                      outcome |-> Unexpected, panic |-> "none"])]
    /\ UNCHANGED <<pvars, cvars, mvars, dvars, avars, unit, stderr, lk, spf, msh>>

\* Out, OutStatus, OutErrStatus, Run or Succeeds: the script is executed and
\* its error goes to onError; a caller may recover from the panic and go on
Shell_Execute ==
    /\ shl # NoShell
    /\ Len(shl.ops) < MaxShellOps
    /\ \E outcome \in Outcomes :
          LET r == onError(shl, outcome) IN
          shl' = [r.sh EXCEPT !.ops = Append(@, [op |-> "execute",
                                      outcome |-> outcome, panic |-> r.panic])]
    /\ UNCHANGED <<pvars, cvars, mvars, dvars, avars, unit, stderr, lk, spf, msh>>

NextShell ==
    \/ Shell_Must
    \/ Shell_Execute

SpecShell == InitShell /\ [][NextShell]_vars

----------------------------------------------------------------------------
(* Properties of the pipeline engine *)

\* the errors the units of the current Run recorded, in order
Diagnostics == [k \in 1..Len(stderr) |-> stderr[k].err]
Ended == pc \in {"Completed", "Aborted", "Panicked"}
StepFailed == Len(calls) > 0 /\ Last(calls).done /\ Last(calls).err # NilErr

\* C1: pipeline short-circuit.  Once a step of the current Run has returned a
\* non-nil error, it is the last step invoked in that Run, Run has stopped
\* and what Run returned is a non-nil error.
C1_ShortCircuit ==
    \A k \in 1..Len(calls) :
        (calls[k].done /\ calls[k].err # NilErr) =>
            /\ k = Len(calls)
            /\ pc = "Aborted"
            /\ ret # NoRet
            /\ ret.err # NilErr

\* a step failed while a later registered step was still to run
C1_Witness ==
    /\ pc = "Aborted"
    /\ StepFailed
    /\ Last(calls).run < Len(added)
    /\ i < Len(steps)

\* C2: when a step returns an error, the error Run returns carries the
\* 1-based ordinal of that step among the steps registered with AddStep,
\* the name it was registered under and the step's own error.
C2_StepErrorIndex ==
    (pc = "Aborted" /\ StepFailed) =>
        LET c == Last(calls) IN
        /\ ret.err.step = c.run
        /\ ret.err.name = added[c.run]
        /\ ret.err.cause = c.err

\* the second registered step failed
C2_Witness ==
    /\ pc = "Aborted"
    /\ StepFailed
    /\ Last(calls).run = 2
    /\ ret.err.step = 2

\* C3: a Run whose load succeeds and in which no step fails invokes exactly
\* the registered steps, each once, in registration order, one at a time,
\* and then returns nil.
C3_RunsExactlyRegistered ==
    [][ /\ (pc = "Running" /\ pc' = "InStep") =>
              \A k \in 1..Len(calls) : calls[k].done
        /\ (pc = "Running" /\ pc' \in {"Completed", "Panicked"}) =>
              /\ pc' = "Completed"
              /\ ret'.err = NilErr
              /\ Len(calls') = Len(added')
              /\ \A k \in 1..Len(calls') :
                    calls'[k].run = k /\ calls'[k].done
      ]_vars

\* C4: value threading.  The first step invoked in a Run observes the nil
\* "no input" value as Input(), every later one the value returned by the
\* step invoked just before it.
C4_ValueThreading ==
    \A k \in 1..Len(calls) :
        calls[k].input = IF k = 1 THEN NilValue ELSE calls[k - 1].out

\* a second step observed the non-nil value the first one returned
C4_Witness ==
    /\ Len(calls) >= 2
    /\ calls[1].out # NilValue
    /\ calls[2].input = calls[1].out

\* C5: when the loader returns no package, Run returns the load error at
\* once and invokes no step; every Run calls the loader exactly once.
C5_LoadFailure ==
    /\ loads = runs
    /\ (runs > 0 /\ loaded.pkg = NilPkg) =>
          /\ pc = "Aborted"
          /\ ret.err = loaded.err
          /\ calls = <<>>

\* a pipeline with registered steps whose load returned no package
C5_Witness ==
    /\ runs > 0
    /\ loaded.pkg = NilPkg
    /\ pc = "Aborted"
    /\ Len(added) > 0
    /\ loaded.err = Err("parse error")

\* the load error is handed to the caller of Run
LoadErrReported ==
    \/ ret.err = loaded.err
    \/ "diags" \in DOMAIN ret
    \/ \E k \in 1..Len(stderr) : stderr[k].err = loaded.err

\* C6: when the loader returns a partial package together with an error,
\* Run still executes the steps (it ends only by completing or by a step's
\* error) and the load error is reported to the caller.  Stated for the
\* revision whose Run gets past its first iteration (part_003).
C6_PartialLoadReported ==
    (rev = "part_003" /\ Ended /\ loaded.pkg # NilPkg /\ loaded.err # NilErr) =>
        /\ pc # "Panicked"
        /\ pc = "Aborted" => StepFailed
        /\ LoadErrReported

\* C7: a Run in which steps only record diagnostics with Errorf and none
\* returns an error completes: every step has run, Run returns no error, and
\* the caller receives the last step's value and the recorded diagnostics.
\* Stated for the revision whose units have Errorf (part_003).
C7_DiagnosticsReturned ==
    [][ (rev = "part_003" /\ pc = "Running" /\ pc' \in {"Completed", "Panicked"}) =>
            /\ pc' = "Completed"
            /\ ret'.err = NilErr
            /\ Len(calls') = Len(added')
            /\ "value" \in DOMAIN ret' /\ ret'.value = out'
            /\ "diags" \in DOMAIN ret' /\ ret'.diags = Diagnostics'
      ]_vars

----------------------------------------------------------------------------
(* Properties of the catalog *)

HitNames == {hits[k].name : k \in 1..Len(hits)}
HitsNamed(name) ==
    LET Test(h) == h.name = name IN SelectSeq(hits, Test)
Resolves(hit) == LookupObject(Info, From(hit)).obj # NilObj

\* C8: Names() returns the distinct names of the cataloged annotations,
\* each exactly once, in ascending order, and no other name.
C8_NamesSortedDistinct ==
    result.op = "Names" =>
        LET r == result.val IN
        /\ \A a, b \in 1..Len(r) : a < b => StringLess(r[a], r[b])
        /\ {r[k] : k \in 1..Len(r)} = HitNames

\* annotations named B, A, B give [A, B]
C8_Witness ==
    /\ result.op = "Names"
    /\ Len(hits) = 3
    /\ hits[1].name = <<66>> /\ hits[2].name = <<65>> /\ hits[3].name = <<66>>
    /\ result.val = <<(<<65>>), (<<66>>)>>

\* C9: Named(n) returns exactly the cataloged annotations whose name is n,
\* each once, in insertion order; the empty sequence for an unused name.
C9_NamedInsertionOrder ==
    result.op = "Named" => result.val = HitsNamed(result.arg)

\* two annotations of the queried name with another name between them
C9_Witness ==
    /\ result.op = "Named"
    /\ Len(hits) = 3
    /\ hits[2].name # result.arg
    /\ result.val = <<hits[1], hits[3]>>

\* C10: after the Catalog step All() returns the annotations of the step's
\* input, each once and in input order, resolved anchor or not.
C10_AllKeepsEveryHit ==
    result.op = "All" => result.val = hits

\* the input mixes annotations with resolved and with unresolved anchors
C10_Witness ==
    /\ result.op = "All"
    /\ Len(hits) = 3
    /\ Resolves(hits[1]) /\ ~Resolves(hits[2]) /\ ~Resolves(hits[3])
    /\ From(hits[2]) # From(hits[3])
    /\ result.val = hits

InSeq(x, q) == \E k \in 1..Len(q) : q[k] = x
SeqSet(q) == {q[k] : k \in 1..Len(q)}

\* C12: after the Catalog build the by-module index holds every annotation:
\* ForPkg(m) returns the annotations of module m (here all of them are in
\* the one package analysed) and Pkgs() lists every module that has one.
C12_ByModuleIndex ==
    /\ result.op = "ForPkg" => result.val = hits
    /\ result.op = "Pkgs" =>
          SeqSet(result.val) = IF Len(hits) > 0 THEN {unit.pkg.Pkg} ELSE {}

AnchorDiags(hit) ==
    { j \in 1..Len(unit.errors) :
        /\ unit.errors[j].message.text = "cannot find anchor object"
        /\ unit.errors[j].message.hit = hit.id }

\* C13: an annotation whose anchor does not resolve is still returned by
\* Named and All, is in no ForObj result, adds no key to Objs(), causes
\* exactly one anchor diagnostic, and Catalog returns a nil error.
C13_UnresolvedAnchor ==
    cpc = "built" =>
        /\ cret = NilErr
        /\ \A order \in RangeOrders(db.obj) :
              SeqSet(Objs(db, order)) =
                 { LookupObject(Info, From(hits[k])).obj :
                       k \in {j \in 1..Len(hits) : Resolves(hits[j])} }
        /\ \A k \in 1..Len(hits) :
              ~Resolves(hits[k]) =>
                 /\ InSeq(hits[k], Named(db, hits[k].name))
                 /\ InSeq(hits[k], All(db))
                 /\ \A o \in ObjUniverse : ~InSeq(hits[k], ForObj(db, o))
                 /\ Cardinality(AnchorDiags(hits[k])) = 1

\* an unresolved annotation next to a resolved one, Objs() asked for
C13_Witness ==
    /\ cpc = "built"
    /\ Len(hits) = 2
    /\ ~Resolves(hits[1])
    /\ Resolves(hits[2])
    /\ result.op = "Objs"
    /\ Len(result.val) = 1

FailingRefs(hit) ==
    { a \in 1..Len(hit.args) :
        IsRef(hit.args[a]) /\ LookupRef(CatalogPkg.Pkg, hit.args[a]).err # NilErr }

RefDiagRecorded(ref) ==
    \E j \in 1..Len(unit.errors) :
        /\ unit.errors[j].message.text = "warning: cannot find referenced object"
        /\ unit.errors[j].message.ref = ref.selector
        /\ unit.errors[j].Position = Position(ref.pos)

\* C14: for every annotation of the input and every Ref argument of it that
\* does not resolve, a diagnostic at that Ref is recorded, Catalog returns a
\* nil error and the annotation is in the catalog.
C14_EveryFailingRefReported ==
    cpc = "built" =>
        /\ cret = NilErr
        /\ \A k \in 1..Len(hits) :
              /\ InSeq(hits[k], All(db))
              /\ \A a \in FailingRefs(hits[k]) : RefDiagRecorded(hits[k].args[a])

\* what a query reading the slice s of the adb returns now
QueryNow(s) == LET r == CopySlice(heap, s) IN Elems(r.heap, r.slice)

\* C11: the sequences the queries return are copies: whatever a caller wrote
\* or appended to the sequences it got, each query (All, Named, ForObj, ForPkg,
\* ForNode, Names, Objs, Pkgs, Nodes) still returns what it returns on the
\* untouched adb, and no returned slice shares an array with the adb.
C11_DefensiveCopies ==
    hdb # NoDb =>
        /\ QueryNow(hdb.all) = All(db)
        /\ \A name \in NameUniverse :
              QueryNow(MapSlice(hdb.name, name)) = Named(db, name)
        /\ \A obj \in ObjUniverse :
              QueryNow(MapSlice(hdb.obj, obj)) = ForObj(db, obj)
        /\ \A p \in PkgUniverse :
              QueryNow(MapSlice(hdb.pkg, p)) = ForPkg(db, p)
        /\ \A node \in NodeUniverse :
              QueryNow(MapSlice(hdb.node, node)) = ForNode(db, node)
        /\ {Names(hdb, o) : o \in RangeOrders(hdb.name)}
              = {Names(db, o) : o \in RangeOrders(db.name)}
        /\ {Objs(hdb, o) : o \in RangeOrders(hdb.obj)}
              = {Objs(db, o) : o \in RangeOrders(db.obj)}
        /\ {Pkgs(hdb, o) : o \in RangeOrders(hdb.pkg)}
              = {Pkgs(db, o) : o \in RangeOrders(db.pkg)}
        /\ {Nodes(hdb, o) : o \in RangeOrders(hdb.node)}
              = {Nodes(db, o) : o \in RangeOrders(db.node)}
        /\ held # NoSlice => held.slice.arr \in {0, Len(heap)}

\* the caller overwrote the first element of what All returned and appended
C11_Witness ==
    /\ held # NoSlice
    /\ held.op = "All"
    /\ Len(db.all) = 1
    /\ held.slice.len = 2
    /\ heap[held.slice.arr][1] = Scribble("All")
    /\ heap[held.slice.arr][2] = Scribble("All")

\* the annotations Run visits, in catalog order, and whether unit.Input() was
\* an AnnotationAPI at all
DispatchInput == All(Input(unit))
Dispatching == dpc \in {"running", "returned", "panicked"} /\ Input(unit) # NilValue
Registered(hit) == hit.name \in DOMAIN ds.Funcs
UndefinedDiags(hit) ==
    { j \in 1..Len(unit.errors) : unit.errors[j].message = UndefinedMsg(hit) }

\* C15: in DispatchStep.Run an annotation without a registered handler gets
\* one diagnostic and is skipped: no handler is invoked for it, the loop goes
\* on in db.All() order, and Run returns an error or stops only at an
\* annotation that has a handler.
C15_MissingHandlerSkipped ==
    Dispatching =>
        /\ Len(events) <= Len(DispatchInput)
        /\ \A j \in 1..Len(events) :
              /\ events[j].hit = DispatchInput[j].id
              /\ ~Registered(DispatchInput[j]) =>
                    /\ events[j].kind = "undefined"
                    /\ ~events[j].called
                    /\ Cardinality(UndefinedDiags(DispatchInput[j])) = 1
                    /\ dk > j
        /\ (dpc = "returned" /\ dret.err = NilErr) =>
              Len(events) = Len(DispatchInput)
        /\ (dpc = "panicked" \/ (dpc = "returned" /\ dret.err # NilErr)) =>
              /\ Len(events) > 0
              /\ Registered(DispatchInput[Len(events)])

\* the first annotation has no handler, the second one has and was called
C15_Witness ==
    /\ dpc = "returned"
    /\ Len(events) = 2
    /\ events[1].kind = "undefined"
    /\ events[2].kind = "called"
    /\ events[2].called
    /\ dret.err = NilErr

\* C16: in DispatchStep.Run a failure at one annotation (argument count or
\* type mismatch, or an error from the handler) does not abort: once Run has
\* returned, every annotation of db.All() was visited.
C16_FailureDoesNotAbort ==
    (/\ dpc = "returned"
     /\ Input(unit) # NilValue
     /\ \A name \in DOMAIN ds.Funcs :
           /\ ds.Funcs[name] # NilValue
           /\ ds.Funcs[name].kind = "func"
           /\ ~ds.Funcs[name].variadic
           /\ ds.Funcs[name].out \in {<<>>, <<"error">>})
        => Len(events) = Len(DispatchInput)

\* have may be passed where need is declared
Assignable(have, need) ==
    \/ have = need
    \/ need \in InterfaceTypes /\ have # NoType /\ Implements(have, need)

\* some argument has a runtime type that fits the parameter it is passed for
\* neither by identity nor by implementing it
Mistyped(fn, args) ==
    /\ fn # NilValue
    /\ fn.kind = "func"
    /\ \E k \in 1..Len(args) :
          /\ k <= Len(fn.in)
          /\ TypeOf(args[k]) # NoType
          /\ ~Assignable(TypeOf(args[k]), fn.in[k])

\* C17: CallFunc never panics because of mistyped arguments: when an argument's
\* runtime type is neither the declared parameter type nor an implementation
\* of it, CallFunc returns an error and does not invoke fn.
C17_NoPanicOnMistypedArgs ==
    (cf # NoCall /\ cf.res # NoRet /\ Mistyped(cf.fn, cf.args)) =>
        /\ ~cf.res.panic
        /\ cf.res.err # NilErr
        /\ ~cf.res.called

\* the handler registered for the j-th annotation visited
HandlerAt(j) == ds.Funcs[DispatchInput[j].name]
ArgCount(j) == Len(DispatchInput[j].args)
FuncHandlerAt(j) ==
    /\ Registered(DispatchInput[j])
    /\ HandlerAt(j) # NilValue
    /\ HandlerAt(j).kind = "func"

\* C18 as claimed: a handler is invoked only when its declared parameter
\* count equals the annotation's argument count; otherwise it is not invoked
\* and an error is produced.
C18_ParamCountEqualsArgCount ==
    Dispatching =>
        \A j \in 1..Len(events) : FuncHandlerAt(j) =>
            /\ events[j].called => Len(HandlerAt(j).in) = ArgCount(j)
            /\ Len(HandlerAt(j).in) # ArgCount(j) =>
                  ~events[j].called /\ events[j].kind = "failed"

\* C18 amended: the annotation itself is the first argument: a handler is
\* invoked only when its declared parameter count equals the annotation's
\* argument count plus one; otherwise it is not invoked and Run returns an
\* error for that annotation.
C18_ParamCountIsArgCountPlusOne ==
    Dispatching =>
        \A j \in 1..Len(events) : FuncHandlerAt(j) =>
            /\ events[j].called => Len(HandlerAt(j).in) = ArgCount(j) + 1
            /\ Len(HandlerAt(j).in) # ArgCount(j) + 1 =>
                  /\ ~events[j].called
                  /\ events[j].kind = "failed"
                  /\ dpc = "returned"
                  /\ dret.err # NilErr

\* a two-parameter handler was called for an annotation with one argument,
\* after a handler without parameters was refused for one without arguments
C18_Witness ==
    /\ Len(events) = 1
    /\ FuncHandlerAt(1)
    /\ ArgCount(1) = 1
    /\ Len(HandlerAt(1).in) = 2
    /\ events[1].called

\* a signature CallFunc does not support
BadSignature(fn) ==
    /\ fn # NilValue
    /\ fn.kind = "func"
    /\ \/ fn.variadic
       \/ Len(fn.out) > 1
       \/ Len(fn.out) = 1 /\ fn.out[1] # "error"

\* C19 as claimed: On rejects a handler that is variadic, returns more than
\* one value or returns a single non-error value, so no such handler is ever
\* in the table; a name maps to one handler.
C19_RejectedAtRegistration ==
    \A name \in DOMAIN ds.Funcs : ~BadSignature(ds.Funcs[name])

\* C19 amended: On accepts any value and keeps the last one registered for a
\* name; a handler that is variadic, returns more than one value or returns a
\* single non-error value is refused by CallFunc at the annotation it is
\* dispatched for, before it is invoked: Run returns an error there.
C19_RejectedAtDispatch ==
    /\ regs # NoReg =>
          regs.name \in DOMAIN ds.Funcs /\ ds.Funcs[regs.name] = regs.cb
    /\ Dispatching =>
          \A j \in 1..Len(events) :
              (Registered(DispatchInput[j]) /\ BadSignature(HandlerAt(j))) =>
                  /\ ~events[j].called
                  /\ events[j].kind = "failed"
                  /\ dpc = "returned"
                  /\ dret.err # NilErr

\* a name was registered twice, the second time with a variadic handler, and
\* the dispatch of its annotation was refused
C19_Witness ==
    /\ regs # NoReg
    /\ regs.again
    /\ regs.cb # NilValue
    /\ regs.cb.kind = "func"
    /\ regs.cb.variadic
    /\ Len(events) = 1
    /\ DispatchInput[1].name = regs.name
    /\ events[1].kind = "failed"

\* the candidates of the source in traversal order, by key
Candidates ==
    { k \in [decl : 1..Len(psrc), comment : 1..MaxLines + 1, line : 1..MaxLines + 1] :
        /\ k.comment <= Len(psrc[k.decl].doc)
        /\ k.line <= Len(psrc[k.decl].doc[k.comment])
        /\ psrc[k.decl].doc[k.comment][k.line].marker }
ChunkAt(k) == psrc[k.decl].doc[k.comment][k.line].chunk
Before(a, b) ==
    \/ a.decl < b.decl
    \/ a.decl = b.decl /\ a.comment < b.comment
    \/ a.decl = b.decl /\ a.comment = b.comment /\ a.line < b.line
Visited(k) ==
    \/ k.decl < pcur.decl
    \/ k.decl = pcur.decl /\ k.comment < pcur.comment

\* a chunk that is a call expression whose arguments are identifiers,
\* selectors, string literals, or decimal integer or float literals with or
\* without one minus
DecimalLit(arg) ==
    /\ arg.node = "BasicLit"
    /\ \/ arg.kind = "INT" /\ IsDigits(arg.value)
       \/ arg.kind = "FLOAT" /\ \A k \in 1..Len(arg.value) :
                                   arg.value[k] \in (48..57) \cup {46}
SupportedArg(arg) ==
    \/ arg.node = "Ident"
    \/ arg.node = "BasicLit" /\ arg.kind = "STRING"
    \/ DecimalLit(arg)
    \/ arg.node = "UnaryExpr" /\ arg.op = "-" /\ DecimalLit(arg.x)
WellFormed(chunk) ==
    /\ chunk.parse = "ok"
    /\ chunk.expr = "CallExpr"
    /\ \A j \in 1..Len(chunk.args) : SupportedArg(chunk.args[j])

ErrorfCallsFor(k) == { j \in 1..Len(perrs) : perrs[j].key = k }
HitsFor(k) == { j \in 1..Len(pout) : pout[j].key = k }

Evaluated(arg, startPos, from, j) ==
    IF arg.node = "Ident"
    THEN Ref(<<arg.name>>, from, startPos + PosOf(ArgOffset(j)))
    ELSE evalLit(arg).val

FirstBadArg(chunk) ==
    CHOOSE j \in 1..Len(chunk.args) :
        /\ ~SupportedArg(chunk.args[j])
        /\ \A k \in 1..(j - 1) : SupportedArg(chunk.args[k])
OffendingOffset(chunk) ==
    CASE chunk.parse # "ok" -> chunk.col - 1
      [] chunk.expr # "CallExpr" -> 0
      [] OTHER -> ArgOffset(FirstBadArg(chunk))

\* C22: every position Parser.Errorf is called with for a parse error is a
\* position of the source: the position of the comment, plus the offset of
\* the candidate in the comment, plus the offset of the offending token in
\* the candidate.
C22_RealPositions ==
    \A e \in 1..Len(perrs) :
        perrs[e].pos = CommentPos(perrs[e].key.decl, perrs[e].key.comment)
                          + MatchEnd(perrs[e].key.line)
                          + OffendingOffset(ChunkAt(perrs[e].key))

\* the value of a numeric literal with the opposite sign
Negated(lit) ==
    IF lit.kind = "INT"
    THEN Lit(0 - Atoi(lit.value).val.lit)
    ELSE Lit([mant |-> 0 - ParseFloat(lit.value).val.lit.mant,
              exp |-> ParseFloat(lit.value).val.lit.exp])
\* one minus in front of an integer or float literal
MinusNumber(arg) ==
    /\ arg.node = "UnaryExpr"
    /\ arg.op = "-"
    /\ arg.x.node = "BasicLit"
    /\ arg.x.kind \in {"INT", "FLOAT"}
\* a minus on a string literal, another operator, a doubled minus, or an
\* operator on something that is not a literal
BadUnary(arg) ==
    /\ arg.node = "UnaryExpr"
    /\ \/ arg.op # "-"
       \/ arg.x.node # "BasicLit"
       \/ arg.x.kind = "STRING"

\* C23: a unary operator is accepted only as one leading minus on an integer
\* or float literal, and the argument is then the negated value; a minus on
\* a string literal, any other operator, a doubled minus or an operator on a
\* non-literal is an error: one Errorf call and no annotation.
C23_UnaryMinusOnly ==
    \A k \in Candidates :
        (Visited(k) /\ ChunkAt(k).parse = "ok" /\ ChunkAt(k).expr = "CallExpr") =>
            \A j \in 1..Len(ChunkAt(k).args) :
                LET arg == ChunkAt(k).args[j] IN
                /\ (arg.node = "UnaryExpr" /\ HitsFor(k) # {}) =>
                      /\ MinusNumber(arg)
                      /\ \A h \in HitsFor(k) : pout[h].args[j] = Negated(arg.x)
                /\ BadUnary(arg) =>
                      /\ HitsFor(k) = {}
                      /\ Cardinality(ErrorfCallsFor(k)) = 1

\* @X(-5, -1.5) became an annotation with the arguments -5 and -15 * 10^-1
C23_Witness ==
    /\ ppc = "done"
    /\ Len(psrc) = 1
    /\ ChunkAt(Key(1, 1, 1)).args = <<UnaryExpr("-", BasicLit("INT", Five)),
                                       UnaryExpr("-", BasicLit("FLOAT", OneAndHalf))>>
    /\ Len(pout) = 1
    /\ pout[1].args = <<Lit(0 - 5), Lit([mant |-> 0 - 15, exp |-> 0 - 1])>>
    /\ perrs = <<>>

\* the error the loop over the arguments makes of an argument it cannot take
ArgError(arg) ==
    IF arg.node \in {"BasicLit", "UnaryExpr"} THEN evalLit(arg).err
    ELSE Err("unsupported syntax")

\* C27: a candidate is all or nothing.  It gives an annotation only if it is
\* a call expression whose every argument is a literal or a reference;
\* otherwise it gives no annotation and exactly one Errorf call, and for a
\* call that call is about the first offending argument in source order.
C27_AllOrNothing ==
    \A k \in Candidates :
        Visited(k) =>
            /\ HitsFor(k) # {} => WellFormed(ChunkAt(k))
            /\ ~WellFormed(ChunkAt(k)) =>
                  /\ HitsFor(k) = {}
                  /\ Cardinality(ErrorfCallsFor(k)) = 1
                  /\ (ChunkAt(k).parse = "ok" /\ ChunkAt(k).expr = "CallExpr") =>
                        \A e \in ErrorfCallsFor(k) :
                            LET j == FirstBadArg(ChunkAt(k)) IN
                            /\ perrs[e].pos = PosOf(ArgOffset(j))
                            /\ perrs[e].err = ArgError(ChunkAt(k).args[j])

\* @X(-"a", 1 + 1): both arguments are unsupported; the one error is about
\* the first, what strconv.Unquote says of -"a"
C27_Witness ==
    /\ ppc = "done"
    /\ Len(psrc) = 1
    /\ ChunkAt(Key(1, 1, 1)).args =
           <<UnaryExpr("-", BasicLit("STRING", QuotedA)), OtherExpr>>
    /\ pout = <<>>
    /\ Len(perrs) = 1
    /\ perrs[1].pos = PosOf(ArgOffset(1))
    /\ perrs[1].err = Err("invalid syntax")

\* a value CallFunc does not support: not a function, variadic, with more
\* than one result, or with one result that is not an error
Unsupported(fn) ==
    IF fn = NilValue \/ fn.kind # "func" THEN TRUE
    ELSE \/ fn.variadic
         \/ Len(fn.out) > 1
         \/ Len(fn.out) = 1 /\ fn.out[1] # "error"

\* C28: CallFunc never invokes an unsupported function: for such an fn it
\* returns an error without calling it, whatever the arguments; and when a
\* called fn returns a non-nil error CallFunc returns that error, when it
\* returns nil or nothing CallFunc returns nil.
C28_UnsupportedNeverCalled ==
    (cf # NoCall /\ cf.res # NoRet) =>
        /\ Unsupported(cf.fn) =>
              /\ ~cf.res.called
              /\ ~cf.res.panic
              /\ cf.res.err # NilErr
        /\ cf.res.called =>
              cf.res.err = IF Len(cf.fn.out) = 1 THEN cf.fn.ret ELSE NilErr

\* the lookup of a selector has returned
Looked == lk # NoLookup /\ lk.res # NoRet

\* C24: LookupRef is bounded.  For a path of k segments it makes at most k
\* name lookups, one per segment in path order; when the lookup of a segment
\* fails it stops there: no later segment is looked up and the error is
\* returned.
C24_BoundedLookups ==
    Looked =>
        LET path == lk.ref.selector
            looked == lk.res.looked
        IN /\ Len(looked) <= Len(path)
           /\ \A n \in 1..Len(looked) :
                 /\ looked[n].segment = n
                 /\ looked[n].name = path[n]
           /\ \A n \in 1..Len(looked) :
                 LookupName(looked[n].parent, looked[n].name).err # NilErr =>
                     /\ n = Len(looked)
                     /\ lk.res.err # NilErr
           /\ lk.res.err = NilErr => Len(looked) = Len(path)

\* Thing.Nope.Greeting: the second of three segments is not found, two lookups
C24_Witness ==
    /\ Looked
    /\ lk.ref.selector = <<"Thing", "Nope", "Greeting">>
    /\ Len(lk.res.looked) = 2
    /\ lk.res.objs = <<Obj("type Thing")>>
    /\ lk.res.err # NilErr

\* C26: a segment after one that resolved to an imported module resolves
\* only to a member that module declares in its own scope; a name the module
\* does not declare, such as a predeclared type of the universe, is an error
\* at that segment.
C26_ModuleMembersOnly ==
    Looked =>
        \A n \in 2..Len(lk.ref.selector) :
            (Len(lk.res.objs) >= n - 1 /\ lk.res.objs[n - 1].obj \in DOMAIN Imported) =>
                LET declared == Members[Imported[lk.res.objs[n - 1].obj]]
                    name == lk.ref.selector[n]
                IN IF name \in DOMAIN declared
                   THEN /\ Len(lk.res.objs) >= n
                        /\ lk.res.objs[n] = Obj(declared[name])
                   ELSE /\ Len(lk.res.objs) = n - 1
                        /\ lk.res.err # NilErr

\* C25: ScriptPrintf escapes every operand that is not a Raw before it
\* formats: the result is fmt.Sprintf of the format and the Escape()d
\* operands, so a Raw operand stands in the output as it is and a string
\* operand never stands there unescaped.
C25_OperandsEscaped ==
    (spf # NoPrintf /\ spf.done) =>
        spf.out = Sprintf(spf.format,
                          [k \in 1..Len(spf.vs) |-> Escape(spf.vs[k])])

\* the mocks asked for a script, in the order of the AddMock calls, and the
\* number of runs of the script among the first n runs
AskedFor(script) == SelectSeq(msh.asked, LAMBDA c : c.Script = script)
RunsOf(script, n) == Cardinality({ j \in 1..n : msh.ran[j].script = script })

\* C29: MockShell pops mocks in order.  The k-th run of a script gets the
\* k-th mock added for that script, runs of other scripts do not advance it,
\* and a run does not fail while the script has a mock not yet consumed; with
\* LoopMocks the run after the last mock gets the first one again.
C29_MocksPoppedInOrder ==
    msh # NoMockShell =>
        \A n \in 1..Len(msh.ran) :
            LET run == msh.ran[n]
                k == RunsOf(run.script, n)
            IN /\ k <= run.had =>
                     /\ run.kind = "mock"
                     /\ run.index + 1 = k
               /\ (msh.LoopMocks /\ run.had > 0) =>
                     /\ run.kind = "mock"
                     /\ run.index = (k - 1) % run.had

\* the last call of Must or execution before op n, and whether op n is an
\* execution that Must was called for
IsExecute(n) == shl.ops[n].op = "execute"
Armed(n) == n > 1 /\ shl.ops[n - 1].op = "Must"
Executions == { n \in 1..Len(shl.ops) : IsExecute(n) }
LastExecution == CHOOSE n \in Executions : \A m \in Executions : m <= n

\* C30: Must arms a one-shot panic.  The execution after Must() panics if it
\* exits non-zero; whatever its outcome the flag is cleared, so a later
\* execution does not panic on a non-zero exit unless Must() was called
\* again; and LastError() is that of the most recent execution: its
\* ExitError after a non-zero exit, nil otherwise.
C30_MustIsOneShot ==
    shl # NoShell =>
        /\ \A n \in Executions :
              LET o == shl.ops[n] IN
              (o.outcome.kind = "exit") =>
                  (o.panic = "status" <=> (Armed(n) /\ o.outcome.status # 0))
        /\ (Executions # {} /\ IsExecute(Len(shl.ops))) => ~shl.panicOnNextError
        /\ Executions # {} =>
              LET o == shl.ops[LastExecution].outcome IN
              LastError(shl) = IF o.kind = "exit" /\ o.status # 0
                               THEN ExitError(o.status) ELSE NilExit

====
